---- MODULE Spec2Model ----
(***************************************************************************)
(* Hotel electrical-device tracking: tenants, rooms, electrical devices,   *)
(* the server actions that write them and the consumption roll-ups         *)
(* (tenant dashboard, power-consumption report, room detail page).         *)
(*                                                                         *)
(* Numbers.  JavaScript numbers are modelled as exact fixed-point values:  *)
(*   power_watts           integer watts                                   *)
(*   usage_hours_per_day   integer hours                                   *)
(*   watt-hours            integer Wh                                      *)
(*   kWh                   integer multiples of 1/KwhScale kWh             *)
(*   money                 integer multiples of 1/MoneyScale dollar        *)
(*   a rate per kWh        integer cents                                   *)
(* so every sum and product is exact; fractional watts or hours and the    *)
(* last-bit effects of IEEE doubles are outside the model.  The room_type *)
(* column, the timestamps and the markup of the pages carry no behaviour   *)
(* and are left out.                                                       *)
(***************************************************************************)
EXTENDS Integers, Sequences, FiniteSets, TLC

VARIABLES
    tenants,       \* table tenants: set of rows [id, name]
    rooms,         \* table rooms: set of rows [id, tenant_id, room_number, display_order]
    devices,       \* table electrical_devices: set of rows
    nextId,        \* ids handed out so far per table (gen_random_uuid: never reused)
    pendingRooms,  \* createRoom calls between their read of the maximum and their insert
    result,        \* value returned by the last server action
    pricePerKwh,   \* text of the rate input of PowerConsumptionReport
    view,          \* the page rendered last
    tenantFk,      \* ON DELETE rule of electrical_devices_tenant_id_tenants_id_fk
    revalidated    \* paths the last server action passed to revalidatePath

vars == <<tenants, rooms, devices, nextId, pendingRooms, result, pricePerKwh, view,
          tenantFk, revalidated>>

(***************************************************************************)
(* Bounds                                                                  *)
(***************************************************************************)
MaxRooms == 4        \* room ids handed out in a behaviour
MaxDevices == 5      \* device ids handed out in a behaviour
MaxPending == 2      \* createRoom calls in flight at once
MaxTenants == 3      \* tenant ids handed out in a behaviour
MaxStaged == 2        \* devices staged in the room device form at a time
MaxUpdates == 2      \* entries of a bulk update
CalcRooms == 3       \* rooms of the tenant in CalcSpec
CalcDevices == 2     \* device rows in CalcSpec

(***************************************************************************)
(* Program constants                                                       *)
(***************************************************************************)
WhPerKwh == 1000           \* dailyKwh = dailyWattHours / 1000
DaysPerMonth == 30         \* monthlyKwh = dailyKwh * 30
DaysPerYear == 365         \* yearlyKwh = dailyKwh * 365
HighKwh == 20              \* if (dailyKwh > 20) healthStatus = 'high'
ModerateKwh == 10          \* else if (dailyKwh > 10) healthStatus = 'moderate'
Hundred == 100             \* Math.round(x * 100) / 100 and percentage * 100
DefaultRateCents == 15     \* totalMonthlyKwh * 0.15
MaxHours == 24             \* usageHoursPerDay: max(24)

KwhScale == WhPerKwh                \* kWh values are carried in units of 1/1000 kWh
MoneyScale == Hundred * KwhScale    \* kWh (scaled) times cents gives 1/100000 dollar

NULL == 0    \* SQL NULL of electrical_devices.room_id, and "no row"

NullRoom == [id |-> NULL]    \* nextRoom: null

(***************************************************************************)
(* Generic helpers                                                         *)
(***************************************************************************)
\* All orders in which the rows of S can be returned by a select without ORDER BY
RECURSIVE Perms(_)
Perms(S) ==
    IF S = {} THEN {<<>>}
    ELSE UNION {{<<x>> \o p : p \in Perms(S \ {x})} : x \in S}

RECURSIVE SumSeq(_)
SumSeq(s) == IF s = <<>> THEN 0 ELSE Head(s) + SumSeq(Tail(s))

(***************************************************************************)
(* Sample data of the migration                                            *)
(***************************************************************************)
SampleTenants ==
    {[id |-> 1, name |-> "Grand Plaza Hotel"], [id |-> 2, name |-> "City Center Inn"]}

\* the rooms the migration inserts for 'Grand Plaza Hotel'
SampleRooms ==
    {[id |-> 1, tenant_id |-> 1, room_number |-> "101", display_order |-> 1],
     [id |-> 2, tenant_id |-> 1, room_number |-> "102", display_order |-> 2],
     [id |-> 3, tenant_id |-> 1, room_number |-> "Presidential Suite", display_order |-> 3]}

\* tenant ids a request can carry: the sample tenants and the id of no tenant
TenantArgs == {t.id : t \in SampleTenants} \cup {Cardinality(SampleTenants) + 1}

\* room ids a request can carry: the sample rooms and the id of no room
RoomArgs == {r.id : r \in SampleRooms} \cup {Cardinality(SampleRooms) + 1}

(***************************************************************************)
(* Data store: the selects the actions and pages issue                     *)
(***************************************************************************)
TenantIds == {t.id : t \in tenants}
RoomIds == {r.id : r \in rooms}

RoomsOfTenant(tenantId) == {r \in rooms : r.tenant_id = tenantId}

\* mutant: the select lacks its .eq('room_id', roomId) filter
DevicesOfRoom_anyRoom(roomId) == devices

\* .from('electrical_devices').eq('room_id', roomId), and the embedded
\* electrical_devices(...) of a rooms select (joined over the room_id key)
DevicesOfRoom(roomId) == {d \in devices : d.room_id = roomId}

\* .eq('tenant_id', tenantId).order('display_order', { ascending: true }):
\* every order of the tenant's rooms that is ascending in display_order
RoomsByDisplayOrder(tenantId) ==
    {s \in Perms(RoomsOfTenant(tenantId)) :
        \A i \in 1..(Len(s) - 1) : s[i].display_order <= s[i + 1].display_order}

\* rooms select with embedded electrical_devices: each room row carries the
\* list of its device rows, in any order
RECURSIVE EmbedDevices(_)
EmbedDevices(s) ==
    IF s = <<>> THEN {<<>>}
    ELSE {<<[room |-> Head(s), electrical_devices |-> e]>> \o rest :
             e \in Perms(DevicesOfRoom(Head(s).id)), rest \in EmbedDevices(Tail(s))}

RoomsWithDevices(tenantId) ==
    UNION {EmbedDevices(s) : s \in RoomsByDisplayOrder(tenantId)}

(***************************************************************************)
(* Arithmetic of the roll-ups                                              *)
(***************************************************************************)
\* mutant: the callback returns the product without adding it to the total
RECURSIVE reduceWattHours_noTotal(_, _)
reduceWattHours_noTotal(devs, total) ==
    IF devs = <<>> THEN total
    ELSE reduceWattHours_noTotal(Tail(devs),
                                 Head(devs).power_watts * Head(devs).usage_hours_per_day)

\* devices.reduce((total, device) => total + device.power_watts * device.usage_hours_per_day, 0)
RECURSIVE reduceWattHours(_, _)
reduceWattHours(devs, total) ==
    IF devs = <<>> THEN total
    ELSE reduceWattHours(Tail(devs),
                         total + Head(devs).power_watts * Head(devs).usage_hours_per_day)

\* dailyWattHours / 1000, as a scaled kWh value
toKwh(wattHours) == (wattHours * KwhScale) \div WhPerKwh

\* Math.round(x * 100) / 100 on a value carried in units of 1/scale:
\* Math.round rounds to the nearest integer, halves upwards
Round2(x, scale) ==
    LET step == scale \div Hundred
    IN  ((x + step \div 2) \div step) * step

\* mutant: the thresholds are compared with >=
healthStatus_inclusive(dailyKwh) ==
    IF dailyKwh >= HighKwh * KwhScale THEN "high"
    ELSE IF dailyKwh >= ModerateKwh * KwhScale THEN "moderate"
    ELSE "good"

\* mutant: the lower threshold is tested first
healthStatus_lowFirst(dailyKwh) ==
    IF dailyKwh > ModerateKwh * KwhScale THEN "moderate"
    ELSE IF dailyKwh > HighKwh * KwhScale THEN "high"
    ELSE "good"

\* healthStatus of getTenantDashboard: 'good' unless one of the two ifs fires
healthStatus(dailyKwh) ==
    IF dailyKwh > HighKwh * KwhScale THEN "high"
    ELSE IF dailyKwh > ModerateKwh * KwhScale THEN "moderate"
    ELSE "good"

(***************************************************************************)
(* getTenantDashboard                                                      *)
(***************************************************************************)
\* the unrounded values of one room inside roomsWithMetrics
roomRollup(devs) ==
    LET dailyWattHours == reduceWattHours(devs, 0)
        dailyKwh == toKwh(dailyWattHours)
    IN  [deviceCount |-> Len(devs),
         dailyKwh |-> dailyKwh,
         monthlyKwh |-> dailyKwh * DaysPerMonth,
         yearlyKwh |-> dailyKwh * DaysPerYear]

\* one element of roomsWithMetrics
roomWithMetrics(rw) ==
    LET raw == roomRollup(rw.electrical_devices)
    IN  [id |-> rw.room.id,
         deviceCount |-> raw.deviceCount,
         dailyKwh |-> Round2(raw.dailyKwh, KwhScale),
         monthlyKwh |-> Round2(raw.monthlyKwh, KwhScale),
         yearlyKwh |-> Round2(raw.yearlyKwh, KwhScale),
         healthStatus |-> healthStatus(raw.dailyKwh)]

\* mutant: the cost is taken from the daily instead of the monthly total
dashboardStats_dailyCost(roomsWithMetrics) ==
    LET n == Len(roomsWithMetrics)
        totalDevices == SumSeq([i \in 1..n |-> roomsWithMetrics[i].deviceCount])
        totalDailyKwh == SumSeq([i \in 1..n |-> roomsWithMetrics[i].dailyKwh])
        totalMonthlyKwh == SumSeq([i \in 1..n |-> roomsWithMetrics[i].monthlyKwh])
    IN  [totalRooms |-> n,
         totalDevices |-> totalDevices,
         totalDailyKwh |-> Round2(totalDailyKwh, KwhScale),
         totalMonthlyKwh |-> Round2(totalMonthlyKwh, KwhScale),
         estimatedMonthlyCost |-> Round2(totalDailyKwh * DefaultRateCents, MoneyScale)]

\* stats of the dashboard, from roomsWithMetrics
dashboardStats(roomsWithMetrics) ==
    LET n == Len(roomsWithMetrics)
        totalDevices == SumSeq([i \in 1..n |-> roomsWithMetrics[i].deviceCount])
        totalDailyKwh == SumSeq([i \in 1..n |-> roomsWithMetrics[i].dailyKwh])
        totalMonthlyKwh == SumSeq([i \in 1..n |-> roomsWithMetrics[i].monthlyKwh])
    IN  [totalRooms |-> n,
         totalDevices |-> totalDevices,
         totalDailyKwh |-> Round2(totalDailyKwh, KwhScale),
         totalMonthlyKwh |-> Round2(totalMonthlyKwh, KwhScale),
         estimatedMonthlyCost |-> Round2(totalMonthlyKwh * DefaultRateCents, MoneyScale)]

\* getTenantDashboard(tenantId), given the rows the rooms select returned
getTenantDashboard(tenantId, rws) ==
    IF tenantId \notin TenantIds
    THEN [success |-> FALSE, error |-> "Tenant not found"]
    ELSE LET roomsWithMetrics == [i \in 1..Len(rws) |-> roomWithMetrics(rws[i])]
         IN  [success |-> TRUE,
              tenantId |-> tenantId,
              rooms |-> roomsWithMetrics,
              stats |-> dashboardStats(roomsWithMetrics)]

(***************************************************************************)
(* PowerConsumptionReport                                                  *)
(***************************************************************************)
NaN == -1    \* parseFloat of a text that does not start with a number

\* texts typed into the rate input
PriceTexts == {"0.15", "0.20", "0", "", "abc"}

\* parseFloat(pricePerKwh), in cents per kWh
parseFloat(text) ==
    CASE text = "0.15" -> 15
      [] text = "0.20" -> 20
      [] text = "0" -> 0
      [] OTHER -> NaN

\* const price = parseFloat(pricePerKwh) || 0   (NaN and 0 are falsy)
parsePrice(text) ==
    IF parseFloat(text) = NaN \/ parseFloat(text) = 0 THEN 0 ELSE parseFloat(text)

calculateRoomConsumption(rw, price) ==
    LET devs == rw.electrical_devices
        dailyWattHours == reduceWattHours(devs, 0)
        dailyKwh == toKwh(dailyWattHours)
        monthlyKwh == dailyKwh * DaysPerMonth
        yearlyKwh == dailyKwh * DaysPerYear
        yearlyCost == yearlyKwh * price
    IN  [room |-> rw.room.id,
         deviceCount |-> Len(devs),
         dailyKwh |-> dailyKwh,
         monthlyKwh |-> monthlyKwh,
         yearlyKwh |-> yearlyKwh,
         yearlyCost |-> yearlyCost]

\* roomConsumptions.reduce((acc, room) => ({...}), { devices: 0, ... })
RECURSIVE reduceTotals(_, _)
reduceTotals(rcs, acc) ==
    IF rcs = <<>> THEN acc
    ELSE reduceTotals(Tail(rcs),
            [devices |-> acc.devices + Head(rcs).deviceCount,
             dailyKwh |-> acc.dailyKwh + Head(rcs).dailyKwh,
             monthlyKwh |-> acc.monthlyKwh + Head(rcs).monthlyKwh,
             yearlyKwh |-> acc.yearlyKwh + Head(rcs).yearlyKwh,
             yearlyCost |-> acc.yearlyCost + Head(rcs).yearlyCost])

\* mutant: ascending comparator
compareRooms_ascending(a, b) == a.yearlyKwh - b.yearlyKwh

\* mutant: the rooms are ordered by cost
compareRooms_byCost(a, b) == b.yearlyCost - a.yearlyCost

\* the comparator (a, b) => b.yearlyKwh - a.yearlyKwh
compareRooms(a, b) == b.yearlyKwh - a.yearlyKwh

\* Array.prototype.sort is stable: x goes behind every element that the
\* comparator does not order after it
RECURSIVE insertRoom(_, _)
insertRoom(sorted, x) ==
    IF sorted = <<>> THEN <<x>>
    ELSE IF compareRooms(Head(sorted), x) > 0 THEN <<x>> \o sorted
    ELSE <<Head(sorted)>> \o insertRoom(Tail(sorted), x)

RECURSIVE sortRooms(_, _)
sortRooms(rcs, sorted) ==
    IF rcs = <<>> THEN sorted ELSE sortRooms(Tail(rcs), insertRoom(sorted, Head(rcs)))

\* mutant: the division is not guarded
percentageOfTotal_unguarded(yearlyKwh, totalYearlyKwh) ==
    [num |-> yearlyKwh * Hundred, den |-> totalYearlyKwh]

\* totals.yearlyKwh > 0 ? (yearlyKwh / totals.yearlyKwh) * 100 : 0, as an
\* exact fraction num/den
percentageOfTotal(yearlyKwh, totalYearlyKwh) ==
    IF totalYearlyKwh > 0
    THEN [num |-> yearlyKwh * Hundred, den |-> totalYearlyKwh]
    ELSE [num |-> 0, den |-> 1]

\* what the report shows for the props roomsWithDevices and the rate text
PowerConsumptionReport(roomsWithDevices, priceText) ==
    LET price == parsePrice(priceText)
        roomConsumptions ==
            [i \in 1..Len(roomsWithDevices) |->
                calculateRoomConsumption(roomsWithDevices[i], price)]
        totals == reduceTotals(roomConsumptions,
            [devices |-> 0, dailyKwh |-> 0, monthlyKwh |-> 0, yearlyKwh |-> 0, yearlyCost |-> 0])
        sortedRooms == sortRooms(roomConsumptions, <<>>)
    IN  [totalRooms |-> Len(roomsWithDevices),
         totals |-> totals,
         rooms |-> [i \in 1..Len(sortedRooms) |->
                      [room |-> sortedRooms[i].room,
                       deviceCount |-> sortedRooms[i].deviceCount,
                       dailyKwh |-> sortedRooms[i].dailyKwh,
                       monthlyKwh |-> sortedRooms[i].monthlyKwh,
                       yearlyKwh |-> sortedRooms[i].yearlyKwh,
                       yearlyCost |-> sortedRooms[i].yearlyCost,
                       percentageOfTotal |->
                           percentageOfTotal(sortedRooms[i].yearlyKwh, totals.yearlyKwh)]]]

(***************************************************************************)
(* Room detail page                                                        *)
(***************************************************************************)
\* the health status block of the room detail page
roomHealthStatus(dailyKwh) ==
    IF dailyKwh > HighKwh * KwhScale THEN "high"
    ELSE IF dailyKwh > ModerateKwh * KwhScale THEN "moderate"
    ELSE "good"

\* RoomDetailContent: the metrics of one room from getDevicesByRoom(roomId)
RoomDetailContent(roomId, devs) ==
    LET dailyWattHours == reduceWattHours(devs, 0)
        dailyKwh == toKwh(dailyWattHours)
        monthlyKwh == dailyKwh * DaysPerMonth
    IN  [roomId |-> roomId,
         deviceCount |-> Len(devs),
         dailyKwh |-> dailyKwh,
         monthlyKwh |-> monthlyKwh,
         yearlyKwh |-> dailyKwh * DaysPerYear,
         estimatedMonthlyCost |-> monthlyKwh * DefaultRateCents,
         healthStatus |-> roomHealthStatus(dailyKwh)]

(***************************************************************************)
(* Pages: what a request renders                                           *)
(***************************************************************************)
NoView == [page |-> "none"]
NoResult == [action |-> "none"]

\* DashboardContent of /tenants/[id]: getTenantDashboard, then a second rooms
\* select for the report tab, whose rate input starts at '0.15'
LoadTenantDashboard(tenantId) ==
    /\ \E rws1 \in RoomsWithDevices(tenantId), rws2 \in RoomsWithDevices(tenantId) :
          LET res == getTenantDashboard(tenantId, rws1)
          IN  IF ~res.success
              THEN /\ view' = [page |-> "notFound"]
                   /\ UNCHANGED pricePerKwh
              ELSE /\ pricePerKwh' = "0.15"
                   /\ view' = [page |-> "tenantDashboard",
                               tenantId |-> tenantId,
                               dashboard |-> res,
                               roomsWithDevices |-> rws2,
                               report |-> PowerConsumptionReport(rws2, "0.15")]
    /\ UNCHANGED <<tenants, rooms, devices, nextId, pendingRooms, result, tenantFk, revalidated>>

\* onChange of the rate input: setPricePerKwh(e.target.value) re-renders the
\* report from the same props
SetPricePerKwh(text) ==
    /\ view.page = "tenantDashboard"
    /\ pricePerKwh' = text
    /\ view' = [view EXCEPT !.report = PowerConsumptionReport(view.roomsWithDevices, text)]
    /\ UNCHANGED <<tenants, rooms, devices, nextId, pendingRooms, result, tenantFk, revalidated>>

\* RoomDetailPage of /tenants/[id]/rooms/[roomId]
LoadRoomDetail(tenantId, roomId) ==
    /\ IF \E r \in rooms : r.id = roomId /\ r.tenant_id = tenantId
       THEN \E devs \in Perms(DevicesOfRoom(roomId)) :
                view' = [page |-> "roomDetail", tenantId |-> tenantId,
                         detail |-> RoomDetailContent(roomId, devs)]
       ELSE view' = [page |-> "notFound"]
    /\ UNCHANGED <<tenants, rooms, devices, nextId, pendingRooms, result, pricePerKwh,
                   tenantFk, revalidated>>

(***************************************************************************)
(* CalcSpec: the roll-ups applied to every small data store                *)
(***************************************************************************)
\* rows that saveDevicesToRoom can have stored: a name, watts and hours
DeviceKinds ==
    <<[device_name |-> "Microwave", power_watts |-> 1000, usage_hours_per_day |-> 10],
      [device_name |-> "Space Heater", power_watts |-> 1430, usage_hours_per_day |-> 7],
      [device_name |-> "Night Light", power_watts |-> 4, usage_hours_per_day |-> 1]>>

RoomNumbers == <<"101", "102", "Presidential Suite", "201", "202">>

\* the first n rooms of tenant 1, created one after the other by createRoom
CalcRoomRows(n) ==
    {[id |-> i, tenant_id |-> 1, room_number |-> RoomNumbers[i], display_order |-> i] :
        i \in 1..n}

\* n device rows, each of some kind and in some room.  Device ids are
\* interchangeable, so only the assignments in ascending (room, kind) order
\* are taken; the order in which a select returns the rows stays free.
CalcDeviceRows(n, nRooms) ==
    {{[id |-> i, tenant_id |-> 1, room_id |-> f[i][1],
       device_name |-> DeviceKinds[f[i][2]].device_name,
       power_watts |-> DeviceKinds[f[i][2]].power_watts,
       usage_hours_per_day |-> DeviceKinds[f[i][2]].usage_hours_per_day] : i \in 1..n} :
        f \in {g \in [1..n -> (1..nRooms) \X (1..Len(DeviceKinds))] :
                  \A i \in 1..(n - 1) :
                      \/ g[i][1] < g[i + 1][1]
                      \/ g[i][1] = g[i + 1][1] /\ g[i][2] <= g[i + 1][2]}}

CalcInit ==
    /\ tenants = SampleTenants
    /\ \E nRooms \in 0..CalcRooms :
          /\ rooms = CalcRoomRows(nRooms)
          /\ \E n \in 0..CalcDevices :
                /\ nRooms = 0 => n = 0
                /\ devices \in CalcDeviceRows(n, nRooms)
                /\ nextId = [tenant |-> 2, room |-> nRooms, device |-> n]
    /\ pendingRooms = {}
    /\ result = NoResult
    /\ pricePerKwh = "0.15"
    /\ view = NoView
    /\ tenantFk = "cascade"
    /\ revalidated = {}

CalcNext ==
    \/ \E t \in TenantArgs : LoadTenantDashboard(t)
    \/ \E text \in PriceTexts : SetPricePerKwh(text)
    \/ \E t \in TenantIds, r \in 1..(CalcRooms + 1) : LoadRoomDetail(t, r)

CalcSpec == CalcInit /\ [][CalcNext]_vars

(***************************************************************************)
(* Paths handed to revalidatePath                                          *)
(***************************************************************************)
TenantsPath == [path |-> "/tenants"]
TenantPath(tenantId) == [path |-> "/tenants/{id}", id |-> tenantId]
RoomsPath(tenantId) == [path |-> "/tenants/{id}/rooms", id |-> tenantId]
RoomPath(tenantId, roomId) ==
    [path |-> "/tenants/{id}/rooms/{roomId}", id |-> tenantId, roomId |-> roomId]
RoomDevicesPath(tenantId, roomId) ==
    [path |-> "/tenants/{id}/rooms/{roomId}/devices", id |-> tenantId, roomId |-> roomId]

(***************************************************************************)
(* Server actions on rooms (room-actions.ts)                               *)
(***************************************************************************)
Fail(action, error) == [action |-> action, success |-> FALSE, error |-> error]

\* RoomSchema: roomNumber is a string of at least one character
RoomSchemaOk(roomData) == roomData.roomNumber # ""

\* mutant: the constraint is UNIQUE(room_number), without the tenant
RoomNumberTaken_anyTenant(tenantId, roomNumber, exceptId) ==
    \E r \in rooms : r.id # exceptId /\ r.room_number = roomNumber

\* the unique constraint rooms_tenant_room_unique, checked for a row that is
\* written with the id exceptId
RoomNumberTaken(tenantId, roomNumber, exceptId) ==
    \E r \in rooms : r.id # exceptId /\ r.tenant_id = tenantId /\ r.room_number = roomNumber

\* largest display_order of the tenant's rooms + 1, or 1 without rooms
nextOrder(tenantId) ==
    IF RoomsOfTenant(tenantId) = {} THEN 1
    ELSE (CHOOSE o \in {r.display_order : r \in RoomsOfTenant(tenantId)} :
             \A r \in RoomsOfTenant(tenantId) : r.display_order <= o) + 1

\* createRoom up to its select of the largest display_order: an invalid
\* input returns at once, otherwise the call goes on to its insert
CreateRoomRead(tenantId, roomData) ==
    /\ Cardinality(pendingRooms) < MaxPending
    /\ IF ~RoomSchemaOk(roomData)
       THEN /\ result' = Fail("createRoom", "Invalid room data provided")
            /\ revalidated' = {}
            /\ UNCHANGED pendingRooms
       ELSE LET call == [tenant_id |-> tenantId,
                         room_number |-> roomData.roomNumber,
                         display_order |-> nextOrder(tenantId)]
            IN  /\ call \notin pendingRooms
                /\ pendingRooms' = pendingRooms \cup {call}
                /\ UNCHANGED <<result, revalidated>>
    /\ UNCHANGED <<tenants, rooms, devices, nextId, pricePerKwh, view, tenantFk>>

\* createRoom from its insert on: the foreign key to tenants and the unique
\* constraint decide the outcome
CreateRoomInsert(call) ==
    /\ call \in pendingRooms
    /\ pendingRooms' = pendingRooms \ {call}
    /\ IF call.tenant_id \notin TenantIds
       THEN /\ result' = Fail("createRoom", "Failed to create room")
            /\ UNCHANGED <<rooms, nextId>>
       ELSE IF RoomNumberTaken(call.tenant_id, call.room_number, NULL)
       THEN /\ result' = Fail("createRoom", "Room number already exists for this hotel")
            /\ UNCHANGED <<rooms, nextId>>
       ELSE /\ nextId.room < MaxRooms
            /\ LET row == [id |-> nextId.room + 1,
                           tenant_id |-> call.tenant_id,
                           room_number |-> call.room_number,
                           display_order |-> call.display_order]
               IN  /\ rooms' = rooms \cup {row}
                   /\ nextId' = [nextId EXCEPT !.room = @ + 1]
                   /\ result' = [action |-> "createRoom", success |-> TRUE, room |-> row]
    /\ revalidated' = IF result'.success THEN {RoomsPath(call.tenant_id)} ELSE {}
    /\ UNCHANGED <<tenants, devices, pricePerKwh, view, tenantFk>>

\* updateRoom: .update(...).eq('id', roomId).select().single(); no row gives
\* the error of .single(), a taken number the unique violation 23505
updateRoom(roomId, roomData) ==
    /\ IF ~RoomSchemaOk(roomData)
       THEN /\ result' = Fail("updateRoom", "Invalid room data provided")
            /\ UNCHANGED rooms
       ELSE IF roomId \notin RoomIds
       THEN /\ result' = Fail("updateRoom", "Failed to update room")
            /\ UNCHANGED rooms
       ELSE LET old == CHOOSE r \in rooms : r.id = roomId
                row == [old EXCEPT !.room_number = roomData.roomNumber]
            IN  IF RoomNumberTaken(old.tenant_id, roomData.roomNumber, roomId)
                THEN /\ result' = Fail("updateRoom", "Room number already exists for this hotel")
                     /\ UNCHANGED rooms
                ELSE /\ rooms' = (rooms \ {old}) \cup {row}
                     /\ result' = [action |-> "updateRoom", success |-> TRUE, room |-> row]
    /\ revalidated' = IF result'.success THEN {RoomsPath(result'.room.tenant_id)} ELSE {}
    /\ UNCHANGED <<tenants, devices, nextId, pendingRooms, pricePerKwh, view, tenantFk>>

\* mutant: the devices of the room stay, with their room_id
DevicesAfterRoomDelete_kept(roomId) == devices

\* electrical_devices_room_id_rooms_id_fk is ON DELETE CASCADE
DevicesAfterRoomDelete(roomId) == {d \in devices : d.room_id # roomId}

\* the delete cascades over electrical_devices_room_id_rooms_id_fk
deleteRoom(roomId) ==
    /\ IF roomId \notin RoomIds
       THEN /\ result' = Fail("deleteRoom", "Room not found")
            /\ UNCHANGED <<rooms, devices>>
       ELSE /\ rooms' = {r \in rooms : r.id # roomId}
            /\ devices' = DevicesAfterRoomDelete(roomId)
            /\ result' = [action |-> "deleteRoom", success |-> TRUE]
    /\ revalidated' = IF result'.success
                      THEN {RoomsPath((CHOOSE r \in rooms : r.id = roomId).tenant_id)}
                      ELSE {}
    /\ UNCHANGED <<tenants, nextId, pendingRooms, pricePerKwh, view, tenantFk>>

\* mutant: .gte instead of .gt
NextRoomCandidates_gte(currentRoom, tenantId) ==
    LET above == {r \in RoomsOfTenant(tenantId) : r.display_order >= currentRoom.display_order}
    IN  {r \in above : \A q \in above : r.display_order <= q.display_order}

\* rows of the second select of getNextRoom before .limit(1): the tenant's
\* rooms above the current display_order that come first in ascending order
NextRoomCandidates(currentRoom, tenantId) ==
    LET above == {r \in RoomsOfTenant(tenantId) : r.display_order > currentRoom.display_order}
    IN  {r \in above : \A q \in above : r.display_order <= q.display_order}

getNextRoom(currentRoomId, tenantId) ==
    /\ IF currentRoomId \notin RoomIds
       THEN result' = Fail("getNextRoom", "Current room not found")
       ELSE LET currentRoom == CHOOSE r \in rooms : r.id = currentRoomId
                candidates == NextRoomCandidates(currentRoom, tenantId)
            IN  IF candidates = {}
                THEN result' = [action |-> "getNextRoom", success |-> TRUE,
                                nextRoom |-> NullRoom, isLastRoom |-> TRUE]
                ELSE \E r \in candidates :
                        result' = [action |-> "getNextRoom", success |-> TRUE,
                                   nextRoom |-> [id |-> r.id, room_number |-> r.room_number],
                                   isLastRoom |-> FALSE]
    /\ revalidated' = {}
    /\ UNCHANGED <<tenants, rooms, devices, nextId, pendingRooms, pricePerKwh, view, tenantFk>>

\* mutant: a source row whose name, watts and hours the target already holds
\* is not copied
CopiedRows_deduplicated(src, targetRoomId) ==
    {[id |-> nextId.device + i,
      tenant_id |-> src[i].tenant_id,
      room_id |-> targetRoomId,
      device_name |-> src[i].device_name,
      power_watts |-> src[i].power_watts,
      usage_hours_per_day |-> src[i].usage_hours_per_day] :
        i \in {j \in 1..Len(src) :
                 ~\E d \in DevicesOfRoom(targetRoomId) :
                     /\ d.device_name = src[j].device_name
                     /\ d.power_watts = src[j].power_watts
                     /\ d.usage_hours_per_day = src[j].usage_hours_per_day}}

\* the rows copyRoomDevices inserts for the source rows src (in the order of
\* the select), with fresh ids
CopiedRows(src, targetRoomId) ==
    {[id |-> nextId.device + i,
      tenant_id |-> src[i].tenant_id,
      room_id |-> targetRoomId,
      device_name |-> src[i].device_name,
      power_watts |-> src[i].power_watts,
      usage_hours_per_day |-> src[i].usage_hours_per_day] : i \in 1..Len(src)}

copyRoomDevices(sourceRoomId, targetRoomId) ==
    /\ IF DevicesOfRoom(sourceRoomId) = {}
       THEN /\ result' = Fail("copyRoomDevices", "Source room has no devices to copy")
            /\ revalidated' = {}
            /\ UNCHANGED <<devices, nextId>>
       ELSE IF targetRoomId \notin RoomIds
       THEN /\ result' = Fail("copyRoomDevices", "Failed to copy devices to target room")
            /\ revalidated' = {}
            /\ UNCHANGED <<devices, nextId>>
       ELSE /\ nextId.device + Cardinality(DevicesOfRoom(sourceRoomId)) <= MaxDevices
            /\ \E sourceDevices \in Perms(DevicesOfRoom(sourceRoomId)) :
               /\ devices' = devices \cup CopiedRows(sourceDevices, targetRoomId)
               /\ nextId' = [nextId EXCEPT !.device = @ + Len(sourceDevices)]
               /\ revalidated' = {RoomsPath(sourceDevices[1].tenant_id)}
               /\ result' = [action |-> "copyRoomDevices", success |-> TRUE,
                             sourceRoomId |-> sourceRoomId,
                             targetRoomId |-> targetRoomId,
                             copied |-> Len(sourceDevices)]
    /\ UNCHANGED <<tenants, rooms, pendingRooms, pricePerKwh, view, tenantFk>>

(***************************************************************************)
(* Server actions on devices (device-actions.ts)                           *)
(***************************************************************************)
\* mutant: powerWatts is .min(0) instead of .positive()
DeviceSchemaOk_zeroWatts(device) ==
    /\ device.name # ""
    /\ device.powerWatts >= 0
    /\ device.usageHoursPerDay >= 0
    /\ device.usageHoursPerDay <= MaxHours

\* DeviceSchema: a name, positive watts, hours between 0 and 24
DeviceSchemaOk(device) ==
    /\ device.name # ""
    /\ device.powerWatts > 0
    /\ device.usageHoursPerDay >= 0
    /\ device.usageHoursPerDay <= MaxHours

\* deviceData of saveDevicesToRoom, with fresh ids
SavedRows(tenantId, roomId, devs) ==
    {[id |-> nextId.device + i,
      tenant_id |-> tenantId,
      room_id |-> roomId,
      device_name |-> devs[i].name,
      power_watts |-> devs[i].powerWatts,
      usage_hours_per_day |-> devs[i].usageHoursPerDay] : i \in 1..Len(devs)}

saveDevicesToRoom(tenantId, roomId, devs) ==
    /\ IF \E i \in 1..Len(devs) : ~DeviceSchemaOk(devs[i])
       THEN /\ result' = Fail("saveDevicesToRoom", "Invalid device data provided")
            /\ UNCHANGED <<devices, nextId>>
       ELSE IF Len(devs) = 0
       THEN /\ result' = Fail("saveDevicesToRoom", "No devices to save")
            /\ UNCHANGED <<devices, nextId>>
       ELSE IF tenantId \notin TenantIds \/ roomId \notin RoomIds
       THEN /\ result' = Fail("saveDevicesToRoom", "Failed to save devices to database")
            /\ UNCHANGED <<devices, nextId>>
       ELSE /\ nextId.device + Len(devs) <= MaxDevices
            /\ devices' = devices \cup SavedRows(tenantId, roomId, devs)
            /\ nextId' = [nextId EXCEPT !.device = @ + Len(devs)]
            /\ result' = [action |-> "saveDevicesToRoom", success |-> TRUE, saved |-> Len(devs)]
    /\ revalidated' = IF result'.success
                      THEN {RoomsPath(tenantId), RoomDevicesPath(tenantId, roomId)}
                      ELSE {}
    /\ UNCHANGED <<tenants, rooms, pendingRooms, pricePerKwh, view, tenantFk>>

\* deviceData of saveDevices: rows without room_id, with fresh ids
UnassignedRows(tenantId, devs) == SavedRows(tenantId, NULL, devs)

saveDevices(tenantId, devs) ==
    /\ IF \E i \in 1..Len(devs) : ~DeviceSchemaOk(devs[i])
       THEN /\ result' = Fail("saveDevices", "Invalid device data provided")
            /\ UNCHANGED <<devices, nextId>>
       ELSE IF Len(devs) = 0
       THEN /\ result' = Fail("saveDevices", "No devices to save")
            /\ UNCHANGED <<devices, nextId>>
       ELSE IF tenantId \notin TenantIds
       THEN /\ result' = Fail("saveDevices", "Failed to save devices to database")
            /\ UNCHANGED <<devices, nextId>>
       ELSE /\ nextId.device + Len(devs) <= MaxDevices
            /\ devices' = devices \cup UnassignedRows(tenantId, devs)
            /\ nextId' = [nextId EXCEPT !.device = @ + Len(devs)]
            /\ result' = [action |-> "saveDevices", success |-> TRUE, saved |-> Len(devs)]
    /\ revalidated' = IF result'.success THEN {TenantPath(tenantId)} ELSE {}
    /\ UNCHANGED <<tenants, rooms, pendingRooms, pricePerKwh, view, tenantFk>>

DeviceIds == {d.id : d \in devices}

\* the three paths updateDevice and deleteDevice revalidate for the row
\* {tenant_id, room_id} they selected
DevicePaths(row) ==
    {TenantPath(row.tenant_id), RoomPath(row.tenant_id, row.room_id),
     RoomDevicesPath(row.tenant_id, row.room_id)}

\* .update({...}).eq('id', deviceId).select('tenant_id, room_id').single():
\* no row is the error of .single()
updateDevice(deviceId, deviceData) ==
    /\ IF ~DeviceSchemaOk(deviceData)
       THEN /\ result' = Fail("updateDevice", "Invalid device data provided")
            /\ revalidated' = {}
            /\ UNCHANGED devices
       ELSE IF deviceId \notin DeviceIds
       THEN /\ result' = Fail("updateDevice", "Failed to update device")
            /\ revalidated' = {}
            /\ UNCHANGED devices
       ELSE LET old == CHOOSE d \in devices : d.id = deviceId
                row == [old EXCEPT !.device_name = deviceData.name,
                                   !.power_watts = deviceData.powerWatts,
                                   !.usage_hours_per_day = deviceData.usageHoursPerDay]
            IN  /\ devices' = (devices \ {old}) \cup {row}
                /\ revalidated' = DevicePaths(row)
                /\ result' = [action |-> "updateDevice", success |-> TRUE, deviceId |-> deviceId]
    /\ UNCHANGED <<tenants, rooms, nextId, pendingRooms, pricePerKwh, view, tenantFk>>

deleteDevice(deviceId) ==
    /\ IF deviceId \notin DeviceIds
       THEN /\ result' = Fail("deleteDevice", "Device not found")
            /\ revalidated' = {}
            /\ UNCHANGED devices
       ELSE LET device == CHOOSE d \in devices : d.id = deviceId
            IN  /\ devices' = devices \ {device}
                /\ revalidated' = DevicePaths(device)
                /\ result' = [action |-> "deleteDevice", success |-> TRUE, deviceId |-> deviceId]
    /\ UNCHANGED <<tenants, rooms, nextId, pendingRooms, pricePerKwh, view, tenantFk>>

(***************************************************************************)
(* Server actions on tenants (tenants.ts)                                  *)
(***************************************************************************)
\* throw new Error(error): the action ends with an exception, not a value
Throw(action, error) == [action |-> action, success |-> FALSE, thrown |-> TRUE, error |-> error]

\* redirect(path) after the revalidation: the action ends by navigating
Redirect(action, path) == [action |-> action, success |-> TRUE, redirect |-> path]

MinNameLen == 2

\* number of characters of the names the tenant form submits
NameLen(name) == IF name = "" THEN 0 ELSE IF name = "A" THEN 1 ELSE MinNameLen

\* CreateTenantSchema: name is a string of 2..255 characters
TenantSchemaOk(name) == NameLen(name) >= MinNameLen

\* the constraint tenants_name_unique, checked for a row written with the id
\* exceptId
TenantNameTaken(name, exceptId) == \E t \in tenants : t.id # exceptId /\ t.name = name

createTenantAction(name) ==
    /\ IF ~TenantSchemaOk(name)
       THEN /\ result' = Throw("createTenantAction", "Name must be at least 2 characters")
            /\ revalidated' = {}
            /\ UNCHANGED <<tenants, nextId>>
       ELSE IF TenantNameTaken(name, NULL)
       THEN /\ result' = Throw("createTenantAction", "Failed to create tenant")
            /\ revalidated' = {}
            /\ UNCHANGED <<tenants, nextId>>
       ELSE /\ nextId.tenant < MaxTenants
            /\ LET tenant == [id |-> nextId.tenant + 1, name |-> name]
               IN  /\ tenants' = tenants \cup {tenant}
                   /\ nextId' = [nextId EXCEPT !.tenant = @ + 1]
                   /\ revalidated' = {TenantsPath}
                   /\ result' = Redirect("createTenantAction", TenantPath(tenant.id))
    /\ UNCHANGED <<rooms, devices, pendingRooms, pricePerKwh, view, tenantFk>>

\* .update({name, updated_at}).eq('id', tenantId): an update of no row is no
\* error; the action returns nothing
updateTenantAction(tenantId, name) ==
    /\ IF ~TenantSchemaOk(name)
       THEN /\ result' = Throw("updateTenantAction", "Name must be at least 2 characters")
            /\ revalidated' = {}
            /\ UNCHANGED tenants
       ELSE IF tenantId \in TenantIds /\ TenantNameTaken(name, tenantId)
       THEN /\ result' = Throw("updateTenantAction", "Failed to update tenant")
            /\ revalidated' = {}
            /\ UNCHANGED tenants
       ELSE /\ tenants' = {IF t.id = tenantId THEN [t EXCEPT !.name = name] ELSE t :
                             t \in tenants}
            /\ revalidated' = {TenantsPath, TenantPath(tenantId)}
            /\ result' = [action |-> "updateTenantAction", success |-> TRUE]
    /\ UNCHANGED <<rooms, devices, nextId, pendingRooms, pricePerKwh, view, tenantFk>>

\* rooms_tenant_id_tenants_id_fk is ON DELETE CASCADE
RoomsAfterTenantDelete(tenantId) == {r \in rooms : r.tenant_id # tenantId}

\* the devices a delete of the tenant leaves: those of other tenants in rooms
\* of other tenants (both foreign keys of electrical_devices cascade)
DevicesAfterTenantDelete(tenantId) ==
    {d \in devices :
        /\ d.tenant_id # tenantId
        /\ \A r \in rooms : r.id = d.room_id => r.tenant_id # tenantId}

\* electrical_devices_tenant_id_tenants_id_fk refuses the delete when it is
\* ON DELETE no action and a device of the tenant exists
TenantDeleteRefused(tenantId) ==
    /\ tenantFk = "no action"
    /\ \E d \in devices : d.tenant_id = tenantId
    /\ tenantId \in TenantIds

deleteTenantAction(tenantId) ==
    /\ IF TenantDeleteRefused(tenantId)
       THEN /\ result' = Throw("deleteTenantAction", "Failed to delete tenant")
            /\ revalidated' = {}
            /\ UNCHANGED <<tenants, rooms, devices>>
       ELSE /\ tenants' = {t \in tenants : t.id # tenantId}
            /\ rooms' = RoomsAfterTenantDelete(tenantId)
            /\ devices' = DevicesAfterTenantDelete(tenantId)
            /\ revalidated' = {TenantsPath}
            /\ result' = Redirect("deleteTenantAction", TenantsPath)
    /\ UNCHANGED <<nextId, pendingRooms, pricePerKwh, view, tenantFk>>

(***************************************************************************)
(* Form actions on devices (devices.ts)                                    *)
(***************************************************************************)
\* texts a number field of the device form can carry
NumberTexts == {"1000", "24", "25", "0", "", "-5", "abc"}

\* z.coerce.number(): Number(text); the empty text is 0, a text that is no
\* number is NaN
Number(text) ==
    CASE text = "1000" -> 1000
      [] text = "24" -> 24
      [] text = "25" -> 25
      [] text = "0" -> 0
      [] text = "" -> 0
      [] text = "-5" -> 0 - 5
      [] OTHER -> NaN

\* mutant: the upper limit of usageHoursPerDay is missing
FormSchemaOk_noMax(form) ==
    /\ form.deviceName # ""
    /\ Number(form.powerWatts) # NaN /\ Number(form.powerWatts) >= 0
    /\ Number(form.usageHoursPerDay) # NaN /\ Number(form.usageHoursPerDay) >= 0

\* DeviceSchema of devices.ts without tenantId: deviceName of 1..255
\* characters, powerWatts a number >= 0, usageHoursPerDay a number in 0..24
FormSchemaOk(form) ==
    /\ form.deviceName # ""
    /\ Number(form.powerWatts) # NaN /\ Number(form.powerWatts) >= 0
    /\ Number(form.usageHoursPerDay) # NaN /\ Number(form.usageHoursPerDay) >= 0
    /\ Number(form.usageHoursPerDay) <= MaxHours

TenantSingularPath(tenantId) == [path |-> "/tenant/{id}", id |-> tenantId]

\* a failure is {errors: ...}, an object without success
FormErrors(action, error) == Fail(action, error)

\* the row has no room_id: the column is left to its default, null
createDeviceAction(form) ==
    /\ IF ~FormSchemaOk(form)
       THEN /\ result' = FormErrors("createDeviceAction", "fieldErrors")
            /\ revalidated' = {}
            /\ UNCHANGED <<devices, nextId>>
       ELSE IF form.tenantId \notin TenantIds
       THEN /\ result' = FormErrors("createDeviceAction", "Failed to create device")
            /\ revalidated' = {}
            /\ UNCHANGED <<devices, nextId>>
       ELSE /\ nextId.device < MaxDevices
            /\ LET row == [id |-> nextId.device + 1,
                           tenant_id |-> form.tenantId,
                           room_id |-> NULL,
                           device_name |-> form.deviceName,
                           power_watts |-> Number(form.powerWatts),
                           usage_hours_per_day |-> Number(form.usageHoursPerDay)]
               IN  /\ devices' = devices \cup {row}
                   /\ nextId' = [nextId EXCEPT !.device = @ + 1]
                   /\ revalidated' = {TenantSingularPath(form.tenantId), TenantsPath}
                   /\ result' = [action |-> "createDeviceAction", success |-> TRUE,
                                 deviceId |-> row.id]
    /\ UNCHANGED <<tenants, rooms, pendingRooms, pricePerKwh, view, tenantFk>>

\* db.update(...).where(eq(id, deviceId)): an update of no row is no error
updateDeviceAction(deviceId, form) ==
    /\ IF ~FormSchemaOk(form)
       THEN /\ result' = FormErrors("updateDeviceAction", "fieldErrors")
            /\ revalidated' = {}
            /\ UNCHANGED devices
       ELSE /\ devices' = {IF d.id = deviceId
                           THEN [d EXCEPT !.device_name = form.deviceName,
                                          !.power_watts = Number(form.powerWatts),
                                          !.usage_hours_per_day = Number(form.usageHoursPerDay)]
                           ELSE d : d \in devices}
            /\ revalidated' = {TenantsPath}
            /\ result' = [action |-> "updateDeviceAction", success |-> TRUE]
    /\ UNCHANGED <<tenants, rooms, nextId, pendingRooms, pricePerKwh, view, tenantFk>>

\* db.delete(...).where(eq(id, deviceId)): a delete of no row is no error
deleteDeviceAction(deviceId) ==
    /\ devices' = {d \in devices : d.id # deviceId}
    /\ revalidated' = {TenantsPath}
    /\ result' = [action |-> "deleteDeviceAction", success |-> TRUE]
    /\ UNCHANGED <<tenants, rooms, nextId, pendingRooms, pricePerKwh, view, tenantFk>>

(***************************************************************************)
(* Bulk update of devices (docs/server-components-actions.md)              *)
(***************************************************************************)
HoursColumnLimit == 100    \* usage_hours_per_day is numeric(4, 2)

\* the store refuses a value that does not fit the column
ColumnOverflow(update) ==
    update.usageHoursPerDay >= HoursColumnLimit \/ update.usageHoursPerDay <= 0 - HoursColumnLimit

\* tx.update(electricalDevices).set({...}).where(eq(id, update.id))
ApplyUpdate(devs, update) ==
    {IF d.id = update.id
     THEN [d EXCEPT !.power_watts = update.powerWatts,
                    !.usage_hours_per_day = update.usageHoursPerDay]
     ELSE d : d \in devs}

\* the for loop inside db.transaction, up to its first failing statement.  A
\* value that does not fit fails the statement when a row matches; without a
\* matching row it fails only if the store coerces the value while planning
\* (checksUnmatched)
RECURSIVE RunUpdates(_, _, _)
RunUpdates(devs, updates, checksUnmatched) ==
    IF updates = <<>> THEN [ok |-> TRUE, devices |-> devs]
    ELSE LET update == Head(updates)
             matched == \E d \in devs : d.id = update.id
         IN  IF ColumnOverflow(update) /\ (matched \/ checksUnmatched)
             THEN [ok |-> FALSE, devices |-> devs]
             ELSE RunUpdates(ApplyUpdate(devs, update), Tail(updates), checksUnmatched)

\* mutant: the statements run outside a transaction, a failure keeps what
\* the earlier statements wrote
TransactionResult_noRollback(before, run) == run.devices

\* db.transaction: commit when the callback returns, rollback when it throws
TransactionResult(before, run) == IF run.ok THEN run.devices ELSE before

bulkUpdateDevicesAction(deviceUpdates) ==
    /\ \E checksUnmatched \in BOOLEAN :
          LET run == RunUpdates(devices, deviceUpdates, checksUnmatched)
          IN  /\ devices' = TransactionResult(devices, run)
              /\ IF run.ok
                 THEN /\ revalidated' = {TenantsPath}
                      /\ result' = [action |-> "bulkUpdateDevicesAction", success |-> TRUE]
                 ELSE /\ revalidated' = {}
                      /\ result' = FormErrors("bulkUpdateDevicesAction",
                                              "Failed to update devices")
    /\ UNCHANGED <<tenants, rooms, nextId, pendingRooms, pricePerKwh, view, tenantFk>>

\* where saveAndNextRoom of the room device form goes with the result of
\* getNextRoom: the next room's device page, the tenant view, or nowhere
saveAndNextRoomTarget(res, tenantId) ==
    IF res.success /\ res.nextRoom.id # NULL
    THEN [path |-> "/tenants/{id}/rooms/{roomId}/devices", id |-> tenantId,
          roomId |-> res.nextRoom.id]
    ELSE IF res.success /\ res.isLastRoom
    THEN [path |-> "/tenants/{id}", id |-> tenantId]
    ELSE [path |-> "none"]

(***************************************************************************)
(* RoomDeviceInputForm: the client component of a room's device page.  Its *)
(* state lives in view; each handler is cut at its awaits, so that the     *)
(* user can act while a server action is in flight                         *)
(***************************************************************************)
\* parseFloat of a text typed into the power or hours field
parseFloatField(text) ==
    CASE text = "1000" -> 1000
      [] text = "10" -> 10
      [] text = "25" -> 25
      [] OTHER -> NaN

\* deviceInputs of saveDevices: the staged devices with their fields parsed
deviceInputs(staged) ==
    [i \in 1..Len(staged) |->
        [name |-> staged[i].name,
         powerWatts |-> parseFloatField(staged[i].powerWatts),
         usageHoursPerDay |-> parseFloatField(staged[i].usageHoursPerDay)]]

\* the component as mounted for a room: the useState initial values;
\* visited is the rooms whose device page the router has shown so far
RoomDeviceInputForm(tenantId, roomId, visited) ==
    [page |-> "roomDevices", tenantId |-> tenantId, roomId |-> roomId,
     devices |-> <<>>, isSubmitting |-> FALSE, isNavigating |-> FALSE,
     pc |-> "idle", flow |-> "none", sending |-> <<>>, saved |-> FALSE,
     alert |-> "none", pushed |-> [path |-> "none"], visited |-> visited]

\* the device page of a room is opened from the rooms list: DeviceInputContent
\* ends in notFound() unless the tenant and the tenant's room exist
OpenRoomDevices(tenantId, roomId) ==
    /\ view = NoView
    /\ tenantId \in TenantIds
    /\ \E r \in rooms : r.id = roomId /\ r.tenant_id = tenantId
    /\ view' = RoomDeviceInputForm(tenantId, roomId, <<roomId>>)
    /\ UNCHANGED <<tenants, rooms, devices, nextId, pendingRooms, result, pricePerKwh,
                   tenantFk, revalidated>>

\* router.push to the next room's device page has mounted that page
FollowPush ==
    /\ view.page = "roomDevices" /\ view.pc = "left"
    /\ view.pushed.path = "/tenants/{id}/rooms/{roomId}/devices"
    /\ view' = RoomDeviceInputForm(view.pushed.id, view.pushed.roomId,
                                   Append(view.visited, view.pushed.roomId))
    /\ UNCHANGED <<tenants, rooms, devices, nextId, pendingRooms, result, pricePerKwh,
                   tenantFk, revalidated>>

\* addDevice returns at once when a field of currentDevice is empty
addDevice(currentDevice) ==
    /\ view.page = "roomDevices" /\ view.pc # "left"
    /\ currentDevice.name # "" /\ currentDevice.powerWatts # ""
    /\ currentDevice.usageHoursPerDay # ""
    /\ view' = [view EXCEPT !.devices = Append(@, currentDevice)]
    /\ UNCHANGED <<tenants, rooms, devices, nextId, pendingRooms, result, pricePerKwh,
                   tenantFk, revalidated>>

removeDevice(i) ==
    /\ view.page = "roomDevices" /\ view.pc # "left"
    /\ i \in 1..Len(view.devices)
    /\ view' = [view EXCEPT !.devices =
                    [j \in 1..(Len(@) - 1) |-> IF j < i THEN @[j] ELSE @[j + 1]]]
    /\ UNCHANGED <<tenants, rooms, devices, nextId, pendingRooms, result, pricePerKwh,
                   tenantFk, revalidated>>

\* a click on 'Save & Next Room' (flow "next") or 'Save & Return' (flow
\* "return"), both disabled while isSubmitting or isNavigating: saveDevices
\* up to its await of saveDevicesToRoom; with nothing staged it returns false
\* and the handler ends
ClickSave(flow) ==
    /\ view.page = "roomDevices" /\ view.pc = "idle"
    /\ ~view.isSubmitting /\ ~view.isNavigating
    /\ Len(view.devices) > 0
    /\ view' = [view EXCEPT !.isSubmitting = TRUE, !.pc = "saving", !.flow = flow,
                            !.sending = deviceInputs(view.devices),
                            !.saved = FALSE, !.alert = "none"]
    /\ result' = NoResult
    /\ UNCHANGED <<tenants, rooms, devices, nextId, pendingRooms, pricePerKwh,
                   tenantFk, revalidated>>

\* the server action called by the form runs
SaveCall ==
    /\ view.page = "roomDevices" /\ view.pc = "saving" /\ result = NoResult
    /\ saveDevicesToRoom(view.tenantId, view.roomId, view.sending)

\* the call does not reach the server: the await rejects
CallThrows(pc, action) ==
    /\ view.page = "roomDevices" /\ view.pc = pc /\ result = NoResult
    /\ result' = Throw(action, "fetch failed")
    /\ UNCHANGED <<tenants, rooms, devices, nextId, pendingRooms, pricePerKwh, view,
                   tenantFk, revalidated>>

\* mutant: the staged list is cleared whatever the save returned
StagedAfterSave_always(staged, res) == <<>>

\* if (result.success) setDevices([])
StagedAfterSave(staged, res) == IF res.success THEN <<>> ELSE staged

\* saveDevices after its await, its finally, and the caller up to its next
\* await: saveAndNextRoom sets isNavigating and calls getNextRoom,
\* saveAndReturn pushes the tenant view
SaveSettled ==
    /\ view.page = "roomDevices" /\ view.pc = "saving"
    /\ result.action = "saveDevicesToRoom"
    /\ LET afterSave ==
             [view EXCEPT !.devices = StagedAfterSave(@, result),
                          !.isSubmitting = FALSE,
                          !.saved = result.success,
                          !.alert = IF result.success THEN "none"
                                    ELSE IF "thrown" \in DOMAIN result
                                    THEN "Failed to save devices. Please try again."
                                    ELSE result.error]
       IN  IF ~result.success
           THEN view' = [afterSave EXCEPT !.pc = "idle"] /\ UNCHANGED result
           ELSE IF view.flow = "next"
           THEN /\ view' = [afterSave EXCEPT !.pc = "navigating", !.isNavigating = TRUE]
                /\ result' = NoResult
           ELSE /\ view' = [afterSave EXCEPT !.pc = "left",
                                            !.pushed = TenantPath(view.tenantId)]
                /\ UNCHANGED result
    /\ UNCHANGED <<tenants, rooms, devices, nextId, pendingRooms, pricePerKwh,
                   tenantFk, revalidated>>

NextRoomCall ==
    /\ view.page = "roomDevices" /\ view.pc = "navigating" /\ result = NoResult
    /\ getNextRoom(view.roomId, view.tenantId)

\* saveAndNextRoom after its await of getNextRoom, and its finally
NextRoomSettled ==
    /\ view.page = "roomDevices" /\ view.pc = "navigating"
    /\ result.action = "getNextRoom"
    /\ LET target == IF "thrown" \in DOMAIN result THEN [path |-> "none"]
                     ELSE saveAndNextRoomTarget(result, view.tenantId)
       IN  view' = [view EXCEPT
                       !.isNavigating = FALSE,
                       !.pushed = target,
                       !.pc = IF target.path = "none" THEN "idle" ELSE "left",
                       !.alert = IF target.path # "none" THEN "none"
                                 ELSE IF "thrown" \in DOMAIN result
                                 THEN "Failed to navigate to next room"
                                 ELSE result.error]
    /\ UNCHANGED <<tenants, rooms, devices, nextId, pendingRooms, result, pricePerKwh,
                   tenantFk, revalidated>>

(***************************************************************************)
(* RoomSpec: rooms created, deleted and walked through, starting  *)
(* from the tenants and rooms of the sample data                           *)
(***************************************************************************)
\* what the add-room form can submit, per tenant: a number the tenant has, a
\* new number, no number; a number for the other tenant and for no tenant
RoomInputs ==
    {<<1, [roomNumber |-> "101"]>>, <<1, [roomNumber |-> "201"]>>, <<1, [roomNumber |-> ""]>>,
     <<2, [roomNumber |-> "101"]>>, <<Cardinality(SampleTenants) + 1, [roomNumber |-> "101"]>>}

RoomInit ==
    /\ tenants = SampleTenants
    /\ rooms = SampleRooms
    /\ devices = {}
    /\ nextId = [tenant |-> 2, room |-> Cardinality(SampleRooms), device |-> 0]
    /\ pendingRooms = {}
    /\ result = NoResult
    /\ pricePerKwh = "0.15"
    /\ view = NoView
    /\ tenantFk = "cascade"
    /\ revalidated = {}

RoomNext ==
    \/ \E in \in RoomInputs : CreateRoomRead(in[1], in[2])
    \/ \E call \in pendingRooms : CreateRoomInsert(call)
    \/ \E r \in 1..(MaxRooms + 1) : deleteRoom(r)
    \/ \E r \in 1..(MaxRooms + 1), t \in TenantArgs : getNextRoom(r, t)

RoomSpec == RoomInit /\ [][RoomNext]_vars

(***************************************************************************)
(* NumberSpec: rooms of the sample data created and renumbered             *)
(***************************************************************************)
\* what the edit-room form can submit
RenameInputs == {[roomNumber |-> "101"], [roomNumber |-> "201"], [roomNumber |-> ""]}

\* the add-room form: a number the first tenant has, for either tenant
NumberInputs == {<<1, [roomNumber |-> "101"]>>, <<2, [roomNumber |-> "101"]>>}

NumberNext ==
    \/ \E in \in NumberInputs : CreateRoomRead(in[1], in[2])
    \/ \E call \in pendingRooms : CreateRoomInsert(call)
    \/ \E r \in 1..(MaxRooms + 1), roomData \in RenameInputs : updateRoom(r, roomData)

NumberSpec == RoomInit /\ [][NumberNext]_vars

(***************************************************************************)
(* OrderSpec: rooms created, renumbered and deleted for 'City Center Inn', *)
(* the sample tenant without rooms; the rooms of the other tenant take no  *)
(* part and are left out                                                   *)
(***************************************************************************)
\* the add-room form of the second tenant: two numbers
OrderInputs == {<<2, [roomNumber |-> "101"]>>, <<2, [roomNumber |-> "102"]>>}

OrderInit ==
    /\ tenants = SampleTenants
    /\ rooms = {}
    /\ devices = {}
    /\ nextId = [tenant |-> Cardinality(SampleTenants), room |-> 0, device |-> 0]
    /\ pendingRooms = {}
    /\ result = NoResult
    /\ pricePerKwh = "0.15"
    /\ view = NoView
    /\ tenantFk = "cascade"
    /\ revalidated = {}

OrderNext ==
    \/ \E in \in OrderInputs : CreateRoomRead(in[1], in[2])
    \/ \E call \in pendingRooms : CreateRoomInsert(call)
    \/ \E r \in 1..MaxRooms, roomData \in RenameInputs : updateRoom(r, roomData)
    \/ \E r \in 1..MaxRooms : deleteRoom(r)

OrderSpec == OrderInit /\ [][OrderNext]_vars

(***************************************************************************)
(* WalkSpec: rooms of one tenant are created (also by overlapping calls)   *)
(* and deleted; then a user walks through them with 'Save & Next Room',    *)
(* during which the rooms are not changed                                  *)
(***************************************************************************)
WalkInputs == {<<2, [roomNumber |-> n]>> : n \in {"101", "102", "103"}}

\* the device typed into the form on each page of the walk
WalkDevice == [name |-> "Microwave", powerWatts |-> "1000", usageHoursPerDay |-> "10"]

WalkNext ==
    \/ view = NoView /\ \E in \in WalkInputs : CreateRoomRead(in[1], in[2])
    \/ view = NoView /\ \E call \in pendingRooms : CreateRoomInsert(call)
    \/ view = NoView /\ \E r \in 1..MaxRooms : deleteRoom(r)
    \/ pendingRooms = {} /\ \E r \in rooms : OpenRoomDevices(r.tenant_id, r.id)
    \/ view # NoView /\ view.devices = <<>> /\ view.pc = "idle" /\ addDevice(WalkDevice)
    \/ ClickSave("next")
    \/ SaveCall
    \/ SaveSettled
    \/ NextRoomCall
    \/ NextRoomSettled
    \/ FollowPush

WalkSpec == OrderInit /\ [][WalkNext]_vars

(***************************************************************************)
(* CopySpec: devices saved to the rooms of the sample data and copied      *)
(* between rooms                                                           *)
(***************************************************************************)
\* devices the form can submit: two that pass DeviceSchema and three that do not
ValidDevices ==
    {[name |-> "Microwave", powerWatts |-> 1000, usageHoursPerDay |-> 10],
     [name |-> "LED Bulb", powerWatts |-> 10, usageHoursPerDay |-> 1]}

InvalidDevices ==
    {[name |-> "", powerWatts |-> 10, usageHoursPerDay |-> 1],
     [name |-> "LED Bulb", powerWatts |-> 0, usageHoursPerDay |-> 1],
     [name |-> "LED Bulb", powerWatts |-> 10, usageHoursPerDay |-> 25]}

\* the lists submitted: none, one device, two valid devices, a valid device
\* followed by an invalid one
DeviceInputLists ==
    {<<>>} \cup {<<a>> : a \in ValidDevices \cup InvalidDevices}
           \cup {<<a, b>> : a \in ValidDevices, b \in ValidDevices}
           \cup {<<a, b>> : a \in ValidDevices, b \in InvalidDevices}

\* the rooms whose device form is filled in; the suite only receives copies
FormRooms == {r \in SampleRooms : r.room_number \in {"101", "102"}}

CopyInit ==
    /\ tenants = SampleTenants
    /\ rooms = SampleRooms
    /\ devices = {}
    /\ nextId = [tenant |-> 2, room |-> Cardinality(SampleRooms), device |-> 0]
    /\ pendingRooms = {}
    /\ result = NoResult
    /\ pricePerKwh = "0.15"
    /\ view = NoView
    /\ tenantFk = "cascade"
    /\ revalidated = {}

CopyNext ==
    \/ \E r \in FormRooms, devs \in DeviceInputLists :
          saveDevicesToRoom(r.tenant_id, r.id, devs)
    \/ \E s \in RoomArgs, t \in RoomArgs : copyRoomDevices(s, t)

CopySpec == CopyInit /\ [][CopyNext]_vars

(***************************************************************************)
(* AttachSpec: devices saved with any tenant id and any room id the caller *)
(* passes, copied between rooms, and rooms created and deleted             *)
(***************************************************************************)
\* the one list the device forms submit here
AttachLists == {<<v>> : v \in {d \in ValidDevices : d.name = "Microwave"}}

\* the devices entered before: a microwave saved to room 101, one saved to the
\* first tenant without a room, and a bulb saved to room 102
EnteredDevices ==
    {[id |-> 1, tenant_id |-> 1, room_id |-> 1, device_name |-> "Microwave",
      power_watts |-> 1000, usage_hours_per_day |-> 10],
     [id |-> 2, tenant_id |-> 1, room_id |-> NULL, device_name |-> "Microwave",
      power_watts |-> 1000, usage_hours_per_day |-> 10],
     [id |-> 3, tenant_id |-> 1, room_id |-> 2, device_name |-> "LED Bulb",
      power_watts |-> 10, usage_hours_per_day |-> 1]}

\* device ids an edit carries: the device of room 101 and the id of no device
EditTargets == {d.id : d \in {e \in EnteredDevices : e.room_id = 1}} \cup {MaxDevices + 1}

AttachInit ==
    /\ tenants = SampleTenants
    /\ rooms = SampleRooms
    /\ devices = EnteredDevices
    /\ nextId = [tenant |-> 2, room |-> Cardinality(SampleRooms),
                 device |-> Cardinality(EnteredDevices)]
    /\ pendingRooms = {}
    /\ result = NoResult
    /\ pricePerKwh = "0.15"
    /\ view = NoView
    /\ tenantFk = "cascade"
    /\ revalidated = {}

AttachNext ==
    \/ \E t \in TenantArgs, r \in RoomArgs, devs \in AttachLists : saveDevicesToRoom(t, r, devs)
    \/ \E t \in TenantArgs, devs \in AttachLists : saveDevices(t, devs)
    \/ \E s \in RoomArgs, t \in RoomArgs : copyRoomDevices(s, t)
    \/ \E r \in RoomArgs : deleteRoom(r)

AttachSpec == AttachInit /\ [][AttachNext]_vars

(***************************************************************************)
(* TenantSpec: tenants created, renamed and deleted under either rule of   *)
(* the devices' tenant key, with devices saved and devices and rooms       *)
(* deleted in between                                                      *)
(***************************************************************************)
\* names the tenant form submits: too short, taken by a sample tenant, new
TenantNames == {"A", "Grand Plaza Hotel", "Sea View Lodge"}

\* the rule of electrical_devices_tenant_id_tenants_id_fk: CASCADE in the
\* Supabase migrations, no action in the drizzle migration
TenantFkRules == {"cascade", "no action"}

TenantInit ==
    /\ tenants = SampleTenants
    /\ rooms = SampleRooms
    /\ devices = EnteredDevices
    /\ nextId = [tenant |-> Cardinality(SampleTenants), room |-> Cardinality(SampleRooms),
                 device |-> Cardinality(EnteredDevices)]
    /\ pendingRooms = {}
    /\ result = NoResult
    /\ pricePerKwh = "0.15"
    /\ view = NoView
    /\ tenantFk \in TenantFkRules
    /\ revalidated = {}

TenantNext ==
    \/ \E name \in TenantNames : createTenantAction(name)
    \/ \E t \in TenantArgs, name \in TenantNames : updateTenantAction(t, name)
    \/ \E t \in 1..(MaxTenants + 1) : deleteTenantAction(t)
    \/ \E t \in TenantArgs \ {1}, devs \in AttachLists : saveDevices(t, devs)
    \/ \E d \in 1..(MaxDevices + 1) : deleteDevice(d)
    \/ \E d \in EditTargets : deleteDeviceAction(d)
    \/ \E r \in RoomArgs : deleteRoom(r)

TenantSpec == TenantInit /\ [][TenantNext]_vars

(***************************************************************************)
(* DeviceSpec: every action that writes a device, fed with values inside   *)
(* and outside the limits of its schema                                    *)
(***************************************************************************)
\* devices DeviceSchema refuses: no name, 0 W, 25 h, and below 0 W or 0 h
RefusedDevices ==
    InvalidDevices \cup
    {[name |-> "LED Bulb", powerWatts |-> 0 - 5, usageHoursPerDay |-> 1],
     [name |-> "LED Bulb", powerWatts |-> 10, usageHoursPerDay |-> 0 - 5]}

\* lists for saveDevices and saveDevicesToRoom: a valid device, each refused
\* device, a valid device followed by a refused one
WriteLists ==
    AttachLists \cup {<<b>> : b \in RefusedDevices}
                \cup {<<a, b>> : a \in {d \in ValidDevices : d.name = "Microwave"},
                                 b \in RefusedDevices}

\* deviceData of updateDevice: a valid device and each refused one
UpdateInputs == {d \in ValidDevices : d.name = "LED Bulb"} \cup RefusedDevices

\* the create and edit forms of devices.ts: the limits 0 W (an empty field)
\* with 24 h and 1000 W with 0 h, then 25 h, -5 W, a text that is no number,
\* no name
DeviceForms ==
    {[tenantId |-> 1, deviceName |-> "Kettle", powerWatts |-> "", usageHoursPerDay |-> "24"],
     [tenantId |-> 1, deviceName |-> "Kettle", powerWatts |-> "1000", usageHoursPerDay |-> "0"],
     [tenantId |-> 1, deviceName |-> "Kettle", powerWatts |-> "1000", usageHoursPerDay |-> "25"],
     [tenantId |-> 1, deviceName |-> "Kettle", powerWatts |-> "-5", usageHoursPerDay |-> "24"],
     [tenantId |-> 1, deviceName |-> "Kettle", powerWatts |-> "abc", usageHoursPerDay |-> "24"],
     [tenantId |-> 1, deviceName |-> "Kettle", powerWatts |-> "1000", usageHoursPerDay |-> "-5"],
     [tenantId |-> 1, deviceName |-> "", powerWatts |-> "1000", usageHoursPerDay |-> "24"]}

DeviceNext ==
    \/ \E devs \in WriteLists : saveDevices(1, devs)
    \/ \E r \in FormRooms, devs \in WriteLists : saveDevicesToRoom(r.tenant_id, r.id, devs)
    \/ \E d \in EditTargets, deviceData \in UpdateInputs : updateDevice(d, deviceData)
    \/ \E form \in DeviceForms : createDeviceAction(form)
    \/ \E d \in EditTargets, form \in DeviceForms : updateDeviceAction(d, form)
    \/ \E r \in FormRooms, t \in FormRooms : copyRoomDevices(r.id, t.id)

DeviceSpec == AttachInit /\ [][DeviceNext]_vars

(***************************************************************************)
(* BulkSpec: bulk updates of the entered devices, with devices deleted in  *)
(* between                                                                 *)
(***************************************************************************)
\* one entry of a bulk update: a stored device or the id of no device, with
\* values that fit the columns or hours that do not
BulkEntries ==
    {[id |-> i, powerWatts |-> v[1], usageHoursPerDay |-> v[2]] :
        i \in EditTargets,
        v \in {<<2000, 5>>, <<10, HoursColumnLimit>>}}

RECURSIVE BulkListsOfLen(_)
BulkListsOfLen(n) ==
    IF n = 0 THEN {<<>>}
    ELSE {<<e>> \o l : e \in BulkEntries, l \in BulkListsOfLen(n - 1)}

BulkLists == UNION {BulkListsOfLen(n) : n \in 0..MaxUpdates}

BulkNext ==
    \/ \E deviceUpdates \in BulkLists : bulkUpdateDevicesAction(deviceUpdates)
    \/ \E d \in 1..Cardinality(EnteredDevices) : deleteDeviceAction(d)
    \/ \E d \in EditTargets \cup {e.id : e \in {x \in EnteredDevices : x.room_id = NULL}},
          deviceData \in ValidDevices : updateDevice(d, deviceData)

BulkSpec == AttachInit /\ [][BulkNext]_vars

(***************************************************************************)
(* SaveSpec: lists of devices saved for the first tenant, with and without *)
(* a room                                                                  *)
(***************************************************************************)
\* the lists of CopySpec and a device whose power field held no number
\* (parseFloat of the field is NaN), alone and after a valid device
SaveLists ==
    DeviceInputLists \cup
    {<<[name |-> "LED Bulb", powerWatts |-> NaN, usageHoursPerDay |-> 1]>>} \cup
    {<<a, [name |-> "LED Bulb", powerWatts |-> NaN, usageHoursPerDay |-> 1]>> :
        a \in ValidDevices}

\* the room whose device form is used
SaveRooms == {r \in SampleRooms : r.room_number = "101"}

SaveNext ==
    \/ \E r \in SaveRooms, devs \in SaveLists : saveDevices(r.tenant_id, devs)
    \/ \E r \in SaveRooms, devs \in SaveLists : saveDevicesToRoom(r.tenant_id, r.id, devs)

SaveSpec == CopyInit /\ [][SaveNext]_vars

(***************************************************************************)
(* TotalsSpec: devices saved with and without a room, copied and deleted,  *)
(* and rooms deleted, in the first sample tenant                           *)
(***************************************************************************)
TotalsNext ==
    \/ \E r \in SaveRooms, devs \in AttachLists : saveDevices(r.tenant_id, devs)
    \/ \E r \in FormRooms, devs \in AttachLists : saveDevicesToRoom(r.tenant_id, r.id, devs)
    \/ \E r \in FormRooms, t \in FormRooms : copyRoomDevices(r.id, t.id)
    \/ \E d \in 1..MaxDevices : deleteDevice(d)
    \/ \E r \in FormRooms : deleteRoom(r.id)

TotalsSpec == CopyInit /\ [][TotalsNext]_vars

(***************************************************************************)
(* DomainSpec: the same name, watts and hours handed to each entry point   *)
(* that writes a device, as an object to device-actions.ts and as form     *)
(* fields to devices.ts                                                    *)
(***************************************************************************)
DomainInputs ==
    {[name |-> n, powerWatts |-> w, usageHoursPerDay |-> h] :
        n \in {"Kettle", ""}, w \in {1000, 0, 0 - 5}, h \in {24, 0, 25}}

\* the text a form field carries for a number
TextOf(n) == CHOOSE text \in NumberTexts \ {""} : Number(text) = n

\* the fields of the device form of the first tenant for an input
FormOf(input) ==
    [tenantId |-> 1, deviceName |-> input.name,
     powerWatts |-> TextOf(input.powerWatts),
     usageHoursPerDay |-> TextOf(input.usageHoursPerDay)]

DomainNext ==
    \/ \E in \in DomainInputs : saveDevices(1, <<in>>)
    \/ \E r \in SaveRooms, in \in DomainInputs : saveDevicesToRoom(r.tenant_id, r.id, <<in>>)
    \/ \E d \in EditTargets, in \in DomainInputs : updateDevice(d, in)
    \/ \E in \in DomainInputs : createDeviceAction(FormOf(in))
    \/ \E d \in EditTargets, in \in DomainInputs : updateDeviceAction(d, FormOf(in))

DomainSpec == AttachInit /\ [][DomainNext]_vars

(***************************************************************************)
(* FormSpec: a user on the device page of a room stages devices, removes   *)
(* them and saves with either button, also while a call is in flight; the  *)
(* calls return, fail or throw                                             *)
(***************************************************************************)
\* devices typed into the form: one the schema accepts, one with 25 hours
FormDevices ==
    {WalkDevice, [name |-> "Space Heater", powerWatts |-> "1000", usageHoursPerDay |-> "25"]}

FormNext ==
    \/ \E r \in FormRooms : OpenRoomDevices(r.tenant_id, r.id)
    \/ \E d \in FormDevices : addDevice(d) /\ Len(view.devices) < MaxStaged
    \/ \E i \in 1..MaxStaged : removeDevice(i)
    \/ \E flow \in {"next", "return"} : ClickSave(flow)
    \/ SaveCall
    \/ CallThrows("saving", "saveDevicesToRoom")
    \/ SaveSettled
    \/ NextRoomCall
    \/ CallThrows("navigating", "getNextRoom")
    \/ NextRoomSettled
    \/ FollowPush

FormSpec == CopyInit /\ [][FormNext]_vars

(***************************************************************************)
(* Reference values for the properties, computed from the stored rows      *)
(* without the code's folds                                                *)
(***************************************************************************)
RECURSIVE SumWattHours(_)
SumWattHours(S) ==
    IF S = {} THEN 0
    ELSE LET d == CHOOSE x \in S : TRUE
         IN  d.power_watts * d.usage_hours_per_day + SumWattHours(S \ {d})

\* watt-hours per day of the devices attached to a room
RoomWattHours(roomId) == SumWattHours(DevicesOfRoom(roomId))

RECURSIVE SumOver(_, _)
SumOver(f, I) ==
    IF I = {} THEN 0
    ELSE LET i == CHOOSE x \in I : TRUE IN f[i] + SumOver(f, I \ {i})

\* watt-hours per day of all devices attached to rooms of the tenant
TenantWattHours(tenantId) ==
    SumOver([r \in RoomsOfTenant(tenantId) |-> RoomWattHours(r.id)], RoomsOfTenant(tenantId))

\* wattHours / 1000 as a scaled kWh value; exact, as KwhScale is a multiple of 1000
ExactKwh(wattHours) == (wattHours * KwhScale) \div 1000

\* v is x rounded to a multiple of step, halves upwards
IsRounded(v, x, step) == v % step = 0 /\ 2 * (v - x) <= step /\ 2 * (x - v) < step

OnDashboard == view.page = "tenantDashboard"

(***************************************************************************)
(* C1  Room roll-up.  For every room shown and every order p of its device *)
(* rows, calculateRoomConsumption and the unrounded roll-up of             *)
(* getTenantDashboard give dailyKwh = (sum of powerWatts x hours) / 1000,  *)
(* monthlyKwh = 30 x dailyKwh, yearlyKwh = 365 x dailyKwh and deviceCount  *)
(* = number of devices, whatever the rate; yearlyCost = yearlyKwh x rate;  *)
(* and the report on screen shows these values.                            *)
(***************************************************************************)
C1_RoomRollup ==
    OnDashboard =>
        \A i \in 1..Len(view.roomsWithDevices) :
            LET room == view.roomsWithDevices[i].room
                devSet == DevicesOfRoom(room.id)
                wh == RoomWattHours(room.id)
            IN  /\ \A p \in Perms(devSet) : \A text \in PriceTexts :
                     LET rc == calculateRoomConsumption(
                                  [room |-> room, electrical_devices |-> p], parsePrice(text))
                         raw == roomRollup(p)
                     IN  /\ rc.dailyKwh = ExactKwh(wh)
                         /\ rc.monthlyKwh = 30 * rc.dailyKwh
                         /\ rc.yearlyKwh = 365 * rc.dailyKwh
                         /\ rc.deviceCount = Cardinality(devSet)
                         /\ rc.yearlyCost = rc.yearlyKwh * parsePrice(text)
                         /\ raw.dailyKwh = rc.dailyKwh
                         /\ raw.monthlyKwh = rc.monthlyKwh
                         /\ raw.yearlyKwh = rc.yearlyKwh
                         /\ raw.deviceCount = rc.deviceCount
                /\ \E j \in 1..Len(view.report.rooms) :
                     /\ view.report.rooms[j].room = room.id
                     /\ view.report.rooms[j].dailyKwh = ExactKwh(wh)
                     /\ view.report.rooms[j].yearlyKwh = 365 * view.report.rooms[j].dailyKwh
                     /\ view.report.rooms[j].deviceCount = Cardinality(devSet)

\* a dashboard with a room holding devices of different consumption
C1_Witness ==
    /\ OnDashboard
    /\ \E i \in 1..Len(view.roomsWithDevices) :
         LET devs == view.roomsWithDevices[i].electrical_devices
         IN  /\ Len(devs) >= 2
             /\ devs[1].power_watts # devs[2].power_watts
             /\ RoomWattHours(view.roomsWithDevices[i].room.id) > 0

(***************************************************************************)
(* C2  Health classification.  The status of a room is 'high' exactly when *)
(* its dailyKwh > 20, 'moderate' exactly when 10 < dailyKwh <= 20, 'good'  *)
(* exactly when dailyKwh <= 10, and the room detail page gives the room    *)
(* the status the dashboard gives it.                                      *)
(***************************************************************************)
StatusFits(status, wattHours) ==
    /\ status \in {"good", "moderate", "high"}
    /\ status = "high" <=> wattHours > 20 * 1000
    /\ status = "moderate" <=> (wattHours > 10 * 1000 /\ wattHours <= 20 * 1000)
    /\ status = "good" <=> wattHours <= 10 * 1000

C2_HealthStatus ==
    /\ OnDashboard =>
         \A i \in 1..Len(view.dashboard.rooms) :
            LET r == view.dashboard.rooms[i]
            IN  /\ StatusFits(r.healthStatus, RoomWattHours(r.id))
                /\ \A p \in Perms(DevicesOfRoom(r.id)) :
                      RoomDetailContent(r.id, p).healthStatus = r.healthStatus
    /\ view.page = "roomDetail" =>
         StatusFits(view.detail.healthStatus, RoomWattHours(view.detail.roomId))

\* a dashboard showing a room at exactly 20 kWh a day and a room above 10 kWh
C2_Witness ==
    /\ OnDashboard
    /\ \E i \in 1..Len(view.dashboard.rooms) :
         /\ RoomWattHours(view.dashboard.rooms[i].id) = 20000
         /\ view.dashboard.rooms[i].healthStatus = "moderate"

(***************************************************************************)
(* C3  Boundary values of the classifier, as claimed: 10.00 -> moderate,   *)
(* 10.01 -> moderate, 20.00 -> moderate, 20.01 -> high, 0 -> good.         *)
(***************************************************************************)
C3_BoundariesAsClaimed ==
    OnDashboard =>
        \A i \in 1..Len(view.dashboard.rooms) :
            LET r == view.dashboard.rooms[i]
                wh == RoomWattHours(r.id)
            IN  /\ wh = 10000 => r.healthStatus = "moderate"
                /\ wh = 10010 => r.healthStatus = "moderate"
                /\ wh = 20000 => r.healthStatus = "moderate"
                /\ wh = 20010 => r.healthStatus = "high"
                /\ wh = 0 => r.healthStatus = "good"

(***************************************************************************)
(* C3 (amended)  Boundary values of the classifier: 10.00 -> good,         *)
(* 10.01 -> moderate, 20.00 -> moderate, 20.01 -> high, 0 -> good.         *)
(***************************************************************************)
C3_Boundaries ==
    OnDashboard =>
        \A i \in 1..Len(view.dashboard.rooms) :
            LET r == view.dashboard.rooms[i]
                wh == RoomWattHours(r.id)
            IN  /\ wh = 10000 => r.healthStatus = "good"
                /\ wh = 10010 => r.healthStatus = "moderate"
                /\ wh = 20000 => r.healthStatus = "moderate"
                /\ wh = 20010 => r.healthStatus = "high"
                /\ wh = 0 => r.healthStatus = "good"

\* a dashboard showing a room at exactly 10.00 kWh and a room at 10.01 kWh
C3_Witness ==
    /\ OnDashboard
    /\ \E i, j \in 1..Len(view.dashboard.rooms) :
         /\ RoomWattHours(view.dashboard.rooms[i].id) = 10000
         /\ RoomWattHours(view.dashboard.rooms[j].id) = 10010

(***************************************************************************)
(* C4  Tenant stats, as claimed: totalRooms = number of the tenant's       *)
(* rooms, totalDevices = sum of the rooms' deviceCount, totalDailyKwh and  *)
(* totalMonthlyKwh = sums of the rooms' dailyKwh and monthlyKwh, and       *)
(* estimatedMonthlyCost = totalMonthlyKwh x 0.15.                          *)
(***************************************************************************)
DashRoomIdx == 1..Len(view.dashboard.rooms)

StatsSumsHold ==
    LET d == view.dashboard
    IN  /\ d.stats.totalRooms = Cardinality(RoomsOfTenant(view.tenantId))
        /\ d.stats.totalDevices =
              SumOver([i \in DashRoomIdx |-> d.rooms[i].deviceCount], DashRoomIdx)
        /\ d.stats.totalDailyKwh =
              SumOver([i \in DashRoomIdx |-> d.rooms[i].dailyKwh], DashRoomIdx)
        /\ d.stats.totalMonthlyKwh =
              SumOver([i \in DashRoomIdx |-> d.rooms[i].monthlyKwh], DashRoomIdx)
        /\ \A i \in DashRoomIdx :
              d.rooms[i].deviceCount = Cardinality(DevicesOfRoom(d.rooms[i].id))

C4_StatsAsClaimed ==
    OnDashboard =>
        /\ StatsSumsHold
        /\ view.dashboard.stats.estimatedMonthlyCost =
              view.dashboard.stats.totalMonthlyKwh * 15

(***************************************************************************)
(* C4 (amended)  As C4, with estimatedMonthlyCost = totalMonthlyKwh x 0.15 *)
(* rounded to 2 decimals; the rate is 0.15 whatever rate is entered in the *)
(* report.                                                                 *)
(***************************************************************************)
C4_Stats ==
    OnDashboard =>
        /\ StatsSumsHold
        /\ IsRounded(view.dashboard.stats.estimatedMonthlyCost,
                     view.dashboard.stats.totalMonthlyKwh * 15,
                     MoneyScale \div 100)

\* a dashboard of two rooms with devices whose cost is not a whole number of
\* cents before rounding, while another rate is entered in the report
C4_Witness ==
    /\ OnDashboard
    /\ pricePerKwh = "0.20"
    /\ view.dashboard.stats.totalRooms >= 2
    /\ view.dashboard.stats.totalDevices >= 2
    /\ (view.dashboard.stats.totalMonthlyKwh * 15) % (MoneyScale \div 100) # 0

(***************************************************************************)
(* C5  Rounding once.  stats.totalDailyKwh and stats.totalMonthlyKwh equal *)
(* the 2-decimal rounding of the sum of the rooms' unrounded dailyKwh and  *)
(* monthlyKwh.                                                             *)
(***************************************************************************)
C5_RoundedOnce ==
    OnDashboard =>
        LET dailyKwh == ExactKwh(TenantWattHours(view.tenantId))
        IN  /\ IsRounded(view.dashboard.stats.totalDailyKwh, dailyKwh, KwhScale \div 100)
            /\ IsRounded(view.dashboard.stats.totalMonthlyKwh, 30 * dailyKwh, KwhScale \div 100)

(***************************************************************************)
(* C6  Percentages of the report.  When the total yearlyKwh of the rooms   *)
(* is > 0, each room's percentageOfTotal is yearlyKwh / total x 100 and    *)
(* the percentages add up to 100; when the total is 0, every percentage is *)
(* 0; no percentage has a zero divisor.                                    *)
(***************************************************************************)
ReportIdx == 1..Len(view.report.rooms)

C6_Percentages ==
    OnDashboard =>
        LET total == 365 * ExactKwh(TenantWattHours(view.tenantId))
            pct(i) == view.report.rooms[i].percentageOfTotal
        IN  /\ \A i \in ReportIdx : pct(i).den # 0
            /\ view.report.totals.yearlyKwh = total
            /\ total > 0 =>
                 /\ \A i \in ReportIdx :
                       /\ pct(i).den = total
                       /\ pct(i).num =
                            100 * 365 * ExactKwh(RoomWattHours(view.report.rooms[i].room))
                 /\ SumOver([i \in ReportIdx |-> pct(i).num], ReportIdx)
                       = 100 * view.report.totals.yearlyKwh
            /\ total = 0 => \A i \in ReportIdx : pct(i).num = 0

\* a report of at least two rooms that consume energy
C6_Witness ==
    /\ OnDashboard
    /\ \E i, j \in ReportIdx :
         /\ i # j
         /\ view.report.rooms[i].percentageOfTotal.num > 0
         /\ view.report.rooms[j].percentageOfTotal.num > 0

(***************************************************************************)
(* C7  Order of the report.  The rooms listed are the tenant's rooms, each *)
(* once, and each room's yearlyKwh is >= that of the room listed after it. *)
(***************************************************************************)
C7_SortedDescending ==
    OnDashboard =>
        /\ Len(view.report.rooms) = Cardinality(RoomsOfTenant(view.tenantId))
        /\ {view.report.rooms[i].room : i \in ReportIdx} =
              {r.id : r \in RoomsOfTenant(view.tenantId)}
        /\ \A i \in ReportIdx :
              i < Len(view.report.rooms) =>
                 view.report.rooms[i].yearlyKwh >= view.report.rooms[i + 1].yearlyKwh

\* a report of three rooms whose first room is not the first by display order
C7_Witness ==
    /\ OnDashboard
    /\ Len(view.report.rooms) >= 3
    /\ view.report.rooms[1].room # view.roomsWithDevices[1].room.id
    /\ view.report.rooms[1].yearlyKwh > view.report.rooms[2].yearlyKwh

(***************************************************************************)
(* C8  Changing the rate.  For the same rooms and devices, the reports for *)
(* any two rate texts agree on every room's deviceCount, dailyKwh,         *)
(* monthlyKwh, yearlyKwh, percentageOfTotal and on the room order; the     *)
(* report on screen is the report of the rate entered; and a change of the *)
(* rate changes no stored tenant, room or device.                          *)
(***************************************************************************)
WithoutCost(report) ==
    [i \in 1..Len(report.rooms) |->
        [room |-> report.rooms[i].room,
         deviceCount |-> report.rooms[i].deviceCount,
         dailyKwh |-> report.rooms[i].dailyKwh,
         monthlyKwh |-> report.rooms[i].monthlyKwh,
         yearlyKwh |-> report.rooms[i].yearlyKwh,
         percentageOfTotal |-> report.rooms[i].percentageOfTotal]]

RateOnlyChangesCost ==
    OnDashboard =>
        /\ \A p1, p2 \in PriceTexts :
              LET r1 == PowerConsumptionReport(view.roomsWithDevices, p1)
                  r2 == PowerConsumptionReport(view.roomsWithDevices, p2)
              IN  /\ WithoutCost(r1) = WithoutCost(r2)
                  /\ parsePrice(p1) = parsePrice(p2) => r1 = r2
                  /\ \A i \in 1..Len(r1.rooms) :
                        r1.rooms[i].yearlyCost = r1.rooms[i].yearlyKwh * parsePrice(p1)
        /\ view.report = PowerConsumptionReport(view.roomsWithDevices, pricePerKwh)

C8_RateChangeIsPure ==
    /\ []RateOnlyChangesCost
    /\ [][(\E text \in PriceTexts : SetPricePerKwh(text))
            => /\ UNCHANGED <<tenants, rooms, devices>>
               /\ WithoutCost(view'.report) = WithoutCost(view.report)]_vars

\* a report recomputed at 0.20 per kWh whose rooms differ in consumption
C8_Witness ==
    /\ OnDashboard
    /\ pricePerKwh = "0.20"
    /\ Len(view.report.rooms) >= 2
    /\ view.report.rooms[1].yearlyKwh > view.report.rooms[2].yearlyKwh
    /\ view.report.rooms[2].yearlyCost > 0
    /\ view.report.rooms[1].room # view.roomsWithDevices[1].room.id

(***************************************************************************)
(* C9  Next room.  For an existing current room, getNextRoom succeeds and  *)
(* returns a room of tenantId whose displayOrder is the smallest one       *)
(* strictly greater than the current room's; the room returned is never    *)
(* the current room; when no room of the tenant has a greater displayOrder *)
(* it returns nextRoom = null and isLastRoom = true, and the form then     *)
(* goes to the tenant view.                                                *)
(***************************************************************************)
NextRoomFits(c, t, res) ==
    LET cur == CHOOSE r \in rooms : r.id = c
        above == {r \in rooms : r.tenant_id = t /\ r.display_order > cur.display_order}
    IN  /\ res.action = "getNextRoom"
        /\ res.success
        /\ above = {} =>
              /\ res.isLastRoom
              /\ res.nextRoom = NullRoom
              /\ saveAndNextRoomTarget(res, t) = [path |-> "/tenants/{id}", id |-> t]
        /\ above # {} =>
              /\ ~res.isLastRoom
              /\ res.nextRoom.id # c
              /\ \E r \in above :
                    /\ r.id = res.nextRoom.id
                    /\ r.room_number = res.nextRoom.room_number
                    /\ r.tenant_id = t
                    /\ \A q \in above : r.display_order <= q.display_order
              /\ saveAndNextRoomTarget(res, t).path = "/tenants/{id}/rooms/{roomId}/devices"
              /\ saveAndNextRoomTarget(res, t).roomId = res.nextRoom.id

C9_NextRoom ==
    [][result'.action = "getNextRoom" =>
          \A c \in RoomIds, t \in TenantArgs :
             getNextRoom(c, t) => NextRoomFits(c, t, result')]_vars

\* getNextRoom has returned a room while the tenant has a room further on
C9_Witness ==
    /\ result.action = "getNextRoom"
    /\ result.success
    /\ ~result.isLastRoom
    /\ \E r, q \in rooms :
         /\ r.id = result.nextRoom.id
         /\ q.tenant_id = r.tenant_id
         /\ q.display_order > r.display_order

(***************************************************************************)
(* C10  Copy.  A successful copyRoomDevices(source, target), the source    *)
(* holding n >= 1 devices and the target m, leaves the target with m + n   *)
(* devices: the m old rows unchanged and n new rows with new ids and, one  *)
(* per source device, its deviceName, powerWatts and usageHoursPerDay;     *)
(* devices already in the target are not deduplicated.                     *)
(***************************************************************************)
SameSettings(a, b) ==
    /\ a.device_name = b.device_name
    /\ a.power_watts = b.power_watts
    /\ a.usage_hours_per_day = b.usage_hours_per_day

CopyFits(s, t, before, after) ==
    LET src == {d \in before : d.room_id = s}
        old == {d \in before : d.room_id = t}
        new == {d \in after : d.room_id = t} \ old
    IN  /\ Cardinality(src) >= 1
        /\ Cardinality({d \in after : d.room_id = t}) = Cardinality(old) + Cardinality(src)
        /\ old \subseteq after
        /\ Cardinality(new) = Cardinality(src)
        /\ Cardinality({d.id : d \in new}) = Cardinality(src)
        /\ \A a \in new : a.id \notin {d.id : d \in before}
        /\ \A d \in src :
              Cardinality({a \in new : SameSettings(a, d)}) =
              Cardinality({x \in src : SameSettings(x, d)})

C10_CopyAddsAll ==
    [][(result'.action = "copyRoomDevices" /\ result'.success) =>
          /\ copyRoomDevices(result'.sourceRoomId, result'.targetRoomId)
          /\ CopyFits(result'.sourceRoomId, result'.targetRoomId, devices, devices')]_vars

\* two devices have been copied into another room that already held a
\* device with the settings of one of them
C10_Witness ==
    /\ result.action = "copyRoomDevices"
    /\ result.success
    /\ result.copied = 2
    /\ result.sourceRoomId # result.targetRoomId
    /\ Cardinality(DevicesOfRoom(result.targetRoomId)) >= 3
    /\ \E a, b \in DevicesOfRoom(result.targetRoomId) : a.id # b.id /\ SameSettings(a, b)

(***************************************************************************)
(* C11  Copy leaves the source alone.  After every successful              *)
(* copyRoomDevices(source, target) the set of devices attached to the      *)
(* source room is the set attached to it before the call.                  *)
(***************************************************************************)
C11_SourceUnchanged ==
    [][(result'.action = "copyRoomDevices" /\ result'.success) =>
          {d \in devices' : d.room_id = result'.sourceRoomId} =
          {d \in devices : d.room_id = result'.sourceRoomId}]_vars

(***************************************************************************)
(* C12  Copy from an empty source.  copyRoomDevices on a source room       *)
(* without devices returns the failure 'Source room has no devices to      *)
(* copy', inserts nothing and leaves every stored row as it was.           *)
(***************************************************************************)
C12_EmptySourceFails ==
    [][\A s, t \in RoomArgs :
          ({d \in devices : d.room_id = s} = {} /\ copyRoomDevices(s, t)) =>
             /\ result' = Fail("copyRoomDevices", "Source room has no devices to copy")
             /\ UNCHANGED <<tenants, rooms, devices, nextId>>
             /\ revalidated' = {}]_vars

\* the failure has been returned while another room holds devices
C12_Witness ==
    /\ result = Fail("copyRoomDevices", "Source room has no devices to copy")
    /\ devices # {}
    /\ \E r \in rooms : {d \in devices : d.room_id = r.id} = {}

\* no two rooms of one tenant carry the same number
RoomNumbersUnique ==
    \A a, b \in rooms :
        (a.tenant_id = b.tenant_id /\ a.room_number = b.room_number) => a.id = b.id

\* another room of the tenant carries the number
DuplicateNumber(tenantId, roomNumber, exceptId) ==
    \E r \in rooms : r.id # exceptId /\ r.tenant_id = tenantId /\ r.room_number = roomNumber

NumberExists == "Room number already exists for this hotel"

\* C16: no tenant ever has two rooms with the same room number, while two
\* tenants may use the same number; a createRoom or updateRoom that would
\* give a tenant a second room with a number is answered with the failure
\* "Room number already exists for this hotel", that failure is given for
\* no other reason, and it leaves the rooms as they were
C16_UniquePerTenant ==
    /\ []RoomNumbersUnique
    /\ [][/\ \A call \in pendingRooms :
               (CreateRoomInsert(call) /\ call.tenant_id \in TenantIds) =>
                  /\ (result' = Fail("createRoom", NumberExists))
                        <=> DuplicateNumber(call.tenant_id, call.room_number, NULL)
                  /\ result' = Fail("createRoom", NumberExists) => UNCHANGED rooms
          /\ \A r \in RoomIds, roomData \in RenameInputs :
               (updateRoom(r, roomData) /\ RoomSchemaOk(roomData)) =>
                  LET old == CHOOSE x \in rooms : x.id = r
                  IN  /\ (result' = Fail("updateRoom", NumberExists))
                            <=> DuplicateNumber(old.tenant_id, roomData.roomNumber, r)
                      /\ result' = Fail("updateRoom", NumberExists) => UNCHANGED rooms]_vars

C16_Witness ==
    /\ result = Fail("updateRoom", NumberExists)
    /\ \E a, b \in rooms : a.tenant_id # b.tenant_id /\ a.room_number = b.room_number

\* C13: every device attached to a room has the tenant of that room
C13_DeviceTenantIsRoomTenant ==
    \A d \in devices : \A r \in rooms : d.room_id = r.id => d.tenant_id = r.tenant_id

\* C14: a deleteTenantAction on an existing tenant removes the tenant, and
\* afterwards no room and no device carries its id
C14_DeleteTenantCascades ==
    [][\A t \in TenantIds :
          deleteTenantAction(t) =>
             /\ t \notin {x.id : x \in tenants'}
             /\ \A r \in rooms' : r.tenant_id # t
             /\ \A d \in devices' : d.tenant_id # t]_vars

\* C15: after a successful deleteRoom(roomId) the room is gone and the other
\* rooms are as before, no device refers to the deleted room, and the devices
\* of other rooms and the devices without a room are exactly as before
C15_DeleteRoomCascades ==
    [][\A r \in RoomArgs :
          (deleteRoom(r) /\ result'.success) =>
             /\ r \in RoomIds
             /\ rooms' = {x \in rooms : x.id # r}
             /\ \A d \in devices' : d.room_id # r
             /\ {d \in devices' : d.room_id # r} = {d \in devices : d.room_id # r}]_vars

C15_Witness ==
    /\ result = [action |-> "deleteRoom", success |-> TRUE]
    /\ Cardinality(devices) < nextId.device
    /\ \E d \in devices : d.room_id = NULL
    /\ \E d \in devices : d.room_id \in RoomIds

\* the limits of a stored device
StoredDeviceOk(d) ==
    /\ d.device_name # ""
    /\ d.power_watts >= 0
    /\ d.usage_hours_per_day >= 0
    /\ d.usage_hours_per_day <= MaxHours

\* an input outside those limits
OutOfRange(name, watts, hours) ==
    name = "" \/ watts = NaN \/ hours = NaN \/ watts < 0 \/ hours < 0 \/ hours > MaxHours

ListOutOfRange(devs) ==
    \E i \in 1..Len(devs) :
        OutOfRange(devs[i].name, devs[i].powerWatts, devs[i].usageHoursPerDay)

FormOutOfRange(form) ==
    OutOfRange(form.deviceName, Number(form.powerWatts), Number(form.usageHoursPerDay))

\* C17: every stored device has a name, at least 0 W and 0 to 24 hours per
\* day, and no step that reports success or changes a device is a write
\* whose input has no name, a value below 0, a value that is no number or
\* more than 24 hours
C17_StoredDevicesInRange ==
    /\ [](\A d \in devices : StoredDeviceOk(d))
    /\ [][(result'.success \/ devices' # devices) =>
            /\ result'.action = "saveDevices" =>
                 \A devs \in WriteLists : ListOutOfRange(devs) => ~saveDevices(1, devs)
            /\ result'.action = "saveDevicesToRoom" =>
                 \A devs \in WriteLists, r \in FormRooms :
                    ListOutOfRange(devs) => ~saveDevicesToRoom(r.tenant_id, r.id, devs)
            /\ result'.action = "updateDevice" =>
                 \A d \in EditTargets, deviceData \in UpdateInputs :
                    ListOutOfRange(<<deviceData>>) => ~updateDevice(d, deviceData)
            /\ result'.action = "createDeviceAction" =>
                 \A form \in DeviceForms : FormOutOfRange(form) => ~createDeviceAction(form)
            /\ result'.action = "updateDeviceAction" =>
                 \A d \in EditTargets, form \in DeviceForms :
                    FormOutOfRange(form) => ~updateDeviceAction(d, form)]_vars

C17_Witness ==
    /\ result = FormErrors("updateDeviceAction", "fieldErrors")
    /\ \E d \in devices : d.usage_hours_per_day = MaxHours /\ d.power_watts = 0
    /\ \E d \in devices : d.usage_hours_per_day = 0
    /\ \E d \in devices : d.id > Cardinality(EnteredDevices) /\ d.device_name = "Microwave"

\* the views that show aggregates of a tenant and of one of its rooms
AffectedViews(tenantId, roomId) ==
    {TenantPath(tenantId), RoomsPath(tenantId),
     RoomPath(tenantId, roomId), RoomDevicesPath(tenantId, roomId)}

\* C18: when saveDevicesToRoom or copyRoomDevices returns success, the tenant
\* dashboard, the rooms list and both pages of the room written to (for a
\* copy, the target room) have been passed to revalidatePath
C18_AffectedViewsRevalidated ==
    [][result'.success =>
         /\ result'.action = "saveDevicesToRoom" =>
              \A r \in FormRooms, devs \in DeviceInputLists :
                 saveDevicesToRoom(r.tenant_id, r.id, devs)
                    => AffectedViews(r.tenant_id, r.id) \subseteq revalidated'
         /\ result'.action = "copyRoomDevices" =>
              \A t \in rooms :
                 result'.targetRoomId = t.id
                    => AffectedViews(t.tenant_id, t.id) \subseteq revalidated']_vars

\* C19: no action on tenants or devices ends with an exception: the outcome of
\* every call is a returned value
C19_NoExceptionEscapes == "thrown" \notin DOMAIN result

\* C20: a delete of a room or a device that is not stored ends in the
\* failure 'Room not found' or 'Device not found' and changes no stored row
C20_MissingIsNotFound ==
    [][/\ result'.action = "deleteRoom" =>
            \A r \in RoomArgs \ RoomIds :
               deleteRoom(r) => /\ result' = Fail("deleteRoom", "Room not found")
                                /\ UNCHANGED <<tenants, rooms, devices>>
       /\ result'.action = "deleteDevice" =>
            \A d \in (1..(MaxDevices + 1)) \ DeviceIds :
               deleteDevice(d) => /\ result' = Fail("deleteDevice", "Device not found")
                                  /\ UNCHANGED <<tenants, rooms, devices>>
       /\ result'.action = "deleteDeviceAction" =>
            \A d \in EditTargets \ DeviceIds :
               deleteDeviceAction(d) =>
                  /\ result' = FormErrors("deleteDeviceAction", "Device not found")
                  /\ UNCHANGED <<tenants, rooms, devices>>]_vars

\* the listed entry that decides the values of device d: the last one for it
LastEntryFor(deviceUpdates, d) ==
    LET idx == {i \in 1..Len(deviceUpdates) : deviceUpdates[i].id = d.id}
    IN  deviceUpdates[CHOOSE i \in idx : \A j \in idx : j <= i]

C22_DisplayOrderUnique ==
    \A a, b \in rooms :
        (a.tenant_id = b.tenant_id /\ a.display_order = b.display_order) => a.id = b.id

\* a submitted device the save actions have to refuse
InvalidInput(device) ==
    \/ device.name = ""
    \/ device.powerWatts = NaN
    \/ device.powerWatts <= 0
    \/ device.usageHoursPerDay < 0
    \/ device.usageHoursPerDay > MaxHours

\* the rows added by a step hold every device of the list exactly once, for
\* the tenant and room given
StoredOnce(devs, tenantId, roomId) ==
    /\ devices \subseteq devices'
    /\ \E f \in Perms(devices' \ devices) :
          /\ Len(f) = Len(devs)
          /\ \A i \in 1..Len(devs) :
                /\ f[i].tenant_id = tenantId
                /\ f[i].room_id = roomId
                /\ f[i].device_name = devs[i].name
                /\ f[i].power_watts = devs[i].powerWatts
                /\ f[i].usage_hours_per_day = devs[i].usageHoursPerDay

\* the outcome the two save actions owe a list
AllOrNothing(devs, tenantId, roomId) ==
    IF Len(devs) = 0 \/ \E i \in 1..Len(devs) : InvalidInput(devs[i])
    THEN ~result'.success /\ UNCHANGED devices
    ELSE result'.success /\ StoredOnce(devs, tenantId, roomId)

\* C23: saveDevices and saveDevicesToRoom store nothing and return a failure
\* for an empty list and for a list with an invalid device, and otherwise
\* return success having stored every device of the list exactly once with
\* the tenant given and the room given (no room for saveDevices)
C23_SaveAllOrNothing ==
    [][/\ result'.action = "saveDevices" =>
            \A r \in SaveRooms, devs \in SaveLists :
               saveDevices(r.tenant_id, devs) => AllOrNothing(devs, r.tenant_id, NULL)
       /\ result'.action = "saveDevicesToRoom" =>
            \A r \in SaveRooms, devs \in SaveLists :
               saveDevicesToRoom(r.tenant_id, r.id, devs)
                  => AllOrNothing(devs, r.tenant_id, r.id)]_vars

C23_Witness ==
    /\ result = Fail("saveDevices", "Invalid device data provided")
    /\ \E a, b \in devices :
          /\ a.id # b.id /\ a.room_id = NULL /\ b.room_id = NULL
          /\ a.device_name = b.device_name
    /\ \E a, b \in devices : a.id # b.id /\ a.room_id # NULL /\ b.room_id # NULL

\* display_order of the stored room with this id
DisplayOrderOf(roomId) == (CHOOSE r \in rooms : r.id = roomId).display_order

\* the rooms of the tenant that lie above the room the form is on
RoomsAbove(tenantId, roomId) ==
    {r \in RoomsOfTenant(tenantId) : r.display_order > DisplayOrderOf(roomId)}

\* C24: repeated next-room navigation terminates.  While a user walks through
\* a tenant's rooms with 'Save & Next Room' and the rooms are not changed,
\* the display_order of the rooms visited strictly increases from step to
\* step, so no room is visited twice and the walk is never longer than the
\* number of the tenant's rooms; getNextRoom reports isLastRoom exactly when
\* no room of the tenant lies above the current one, and then the form
\* pushes the tenant view, otherwise the device page of a room above.
C24_NavigationTerminates ==
    (view # NoView /\ view.page = "roomDevices") =>
        /\ \A i \in 1..Len(view.visited) :
              \E r \in RoomsOfTenant(view.tenantId) : r.id = view.visited[i]
        /\ \A i \in 1..(Len(view.visited) - 1) :
              DisplayOrderOf(view.visited[i]) < DisplayOrderOf(view.visited[i + 1])
        /\ \A i, j \in 1..Len(view.visited) :
              i # j => view.visited[i] # view.visited[j]
        /\ Len(view.visited) <= Cardinality(RoomsOfTenant(view.tenantId))
        /\ (view.pc = "navigating" /\ result.action = "getNextRoom") =>
              /\ result.success
              /\ result.isLastRoom <=> RoomsAbove(view.tenantId, view.roomId) = {}
              /\ ~result.isLastRoom =>
                    \E r \in RoomsAbove(view.tenantId, view.roomId) : r.id = result.nextRoom.id
        /\ (view.pc = "left" /\ view.flow = "next") =>
              IF RoomsAbove(view.tenantId, view.roomId) = {}
              THEN view.pushed = TenantPath(view.tenantId)
              ELSE /\ view.pushed.path = "/tenants/{id}/rooms/{roomId}/devices"
                   /\ \E r \in RoomsAbove(view.tenantId, view.roomId) :
                         r.id = view.pushed.roomId

\* a walk over three rooms has ended on the last room with the tenant view
C24_Witness ==
    /\ view # NoView /\ view.page = "roomDevices"
    /\ Len(view.visited) = 3
    /\ view.pc = "left"
    /\ view.pushed = TenantPath(view.tenantId)
    /\ result.action = "getNextRoom" /\ result.isLastRoom

\* the walk of the form has ended on the tenant view
WalkEnded ==
    /\ view # NoView /\ view.page = "roomDevices"
    /\ view.pc = "left" /\ view.flow = "next"
    /\ view.pushed = TenantPath(view.tenantId)

\* C25: next-room navigation covers the tenant.  A walk that started on the
\* tenant's room with the lowest display_order and went on until isLastRoom
\* has visited every room of the tenant exactly once, in an order in which
\* getRoomsByTenant lists them, whatever createRoom, updateRoom and
\* deleteRoom calls built the rooms.
C25_NavigationCoversTenant ==
    (/\ WalkEnded
     /\ \A r \in RoomsOfTenant(view.tenantId) :
           DisplayOrderOf(view.visited[1]) <= r.display_order) =>
        \E s \in RoomsByDisplayOrder(view.tenantId) :
            view.visited = [i \in 1..Len(s) |-> s[i].id]

\* C26: the two tabs of the tenant dashboard page agree.  The Overview stats
\* of getTenantDashboard (totalRooms, totalDevices, totalDailyKwh) equal the
\* totals of the Details report: its number of rooms, totals.devices, and
\* totals.dailyKwh as shown with two decimals.
C26_ViewsAgree ==
    OnDashboard =>
        /\ view.dashboard.stats.totalRooms = view.report.totalRooms
        /\ view.dashboard.stats.totalDevices = view.report.totals.devices
        /\ IsRounded(view.dashboard.stats.totalDailyKwh, view.report.totals.dailyKwh,
                     KwhScale \div Hundred)

\* C27: every room record of getTenantDashboard is self-consistent.  Its
\* healthStatus is the classification of the dailyKwh returned in the same
\* record, the value rounded to 2 decimals: 'high' iff that dailyKwh > 20,
\* 'moderate' iff 10 < dailyKwh <= 20, 'good' iff dailyKwh <= 10.
C27_RecordConsistent ==
    OnDashboard =>
        \A i \in 1..Len(view.dashboard.rooms) :
            LET r == view.dashboard.rooms[i]
            IN  /\ r.healthStatus = "high" <=> r.dailyKwh > 20 * KwhScale
                /\ r.healthStatus = "moderate" <=>
                      (r.dailyKwh > 10 * KwhScale /\ r.dailyKwh <= 20 * KwhScale)
                /\ r.healthStatus = "good" <=> r.dailyKwh <= 10 * KwhScale

\* the stored devices that carry the tenant's id
DevicesOfTenant(tenantId) == {d \in devices : d.tenant_id = tenantId}

\* C28: the tenant totals of the dashboard leave out no device.  After any
\* calls of saveDevices, saveDevicesToRoom, copyRoomDevices, deleteDevice and
\* deleteRoom, getTenantDashboard(t) returns stats.totalDevices = number of
\* stored devices of tenant t, and a stats.totalDailyKwh that accounts for
\* each of them, also for a device saved without a room.
C28_TotalsCountEveryDevice ==
    \A t \in TenantIds : \A rws \in RoomsWithDevices(t) :
        LET stats == getTenantDashboard(t, rws).stats
        IN  /\ stats.totalDevices = Cardinality(DevicesOfTenant(t))
            /\ (SumWattHours(DevicesOfTenant(t)) > TenantWattHours(t)) =>
                  stats.totalDailyKwh > Round2(ExactKwh(TenantWattHours(t)), KwhScale)

\* the call got past the validation of its input
PassedValidation(res) ==
    res.success \/ res.error \notin {"Invalid device data provided", "fieldErrors"}

\* C29: the entry points that write a device accept the same inputs.  For
\* every name, powerWatts and usageHoursPerDay, powerWatts = 0 included, the
\* validation of saveDevices, saveDevicesToRoom and updateDevice lets the
\* input pass if and only if the validation of createDeviceAction and
\* updateDeviceAction lets it pass.
C29_SameDomain ==
    [][\A in \in DomainInputs :
          /\ (\/ saveDevices(1, <<in>>)
              \/ \E r \in SaveRooms : saveDevicesToRoom(r.tenant_id, r.id, <<in>>)
              \/ \E d \in EditTargets : updateDevice(d, in))
                => (PassedValidation(result') <=> FormSchemaOk(FormOf(in)))
          /\ (\/ createDeviceAction(FormOf(in))
              \/ \E d \in EditTargets : updateDeviceAction(d, FormOf(in)))
                => (PassedValidation(result') <=> DeviceSchemaOk(in))]_vars

\* a step of the form in which staged devices go away
StagedShrinks ==
    /\ view # NoView /\ view.page = "roomDevices"
    /\ Len(view'.devices) < Len(view.devices)

\* the save of the form has just settled without success
SaveFailedStep ==
    /\ view # NoView /\ view.page = "roomDevices"
    /\ view.pc = "saving" /\ view'.pc # "saving"
    /\ ~result.success

\* C30: in the room device form staged devices are never lost, and navigation
\* never precedes a successful save.  Staged devices leave the list only when
\* the user removes one or after saveDevicesToRoom returned success for them;
\* when the save fails or throws, the staged list is unchanged, getNextRoom
\* is not called and nothing is pushed; a page is pushed (the next room, or
\* the tenant view on the last room) only in a flow whose save succeeded; and
\* isSubmitting and isNavigating are false again once the flow has finished.
C30_StagedNeverLost ==
    [][/\ (StagedShrinks /\ ~\E i \in 1..Len(view.devices) : removeDevice(i)) =>
            /\ result.action = "saveDevicesToRoom" /\ result.success
            /\ view.sending = deviceInputs(view.devices)
       /\ SaveFailedStep =>
            /\ view'.devices = view.devices
            /\ view'.pc = "idle" /\ view'.pushed = [path |-> "none"]
            /\ result' = result
       /\ (view # NoView /\ view.page = "roomDevices" /\ view.pc = "navigating") =>
            view.saved /\ view.flow = "next"
       /\ (view # NoView /\ view'.pc = "left" /\ view.pc # "left") =>
            /\ view'.saved
            /\ view'.pushed \in {TenantPath(view.tenantId)} \cup
                   {RoomDevicesPath(view.tenantId, r.id) : r \in rooms}
       /\ (view' # NoView /\ view'.pc \in {"idle", "left"}) =>
            ~view'.isSubmitting /\ ~view'.isNavigating]_vars

====
